---- MODULE Spec2Model ----
(***************************************************************************)
(* GAPMA: the genetic-algorithm description generator of utils/ga.py and   *)
(* utils/manipulations.py, and the JSON generators that persist its        *)
(* results (utils/gapma_json_generator.py, competitor_json_generator.py).  *)
(*                                                                         *)
(* Text is a sequence of one-character strings, so that stripping, fence   *)
(* removal, bracket slicing, numbering removal, JSON parsing and the       *)
(* quoted-substring fallback are computed character by character.         *)
(* Python values are tagged records:                                       *)
(*   [t |-> "str",  s |-> text]        a str                               *)
(*   [t |-> "num",  lit |-> text]      an int or float (its literal)       *)
(*   [t |-> "list", items |-> seq]     a list of values                    *)
(*   [t |-> "none"]                    None                                *)
(*   [t |-> "tuple", items |-> seq]    a tuple of values                   *)
(*   [t |-> "set",  items |-> set]     a set of values                     *)
(*   [t |-> "dict"]                    the empty dict                      *)
(***************************************************************************)
EXTENDS Integers, Sequences, FiniteSets, TLC

(***************************************************************************)
(* Bounds of the model.                                                    *)
(***************************************************************************)
\* largest pool_size (P) a Run is started with
MaxPoolSize == 2
\* largest top_k a Run is started with
MaxTopK == 2
\* largest iterations (N) a Run is started with
MaxIterations == 2
\* generator invocations (runs of a main()) in one behaviour
MaxInvocations == 3
\* longest pool select_top_k is called with when it is checked on its own
MaxSelectPool == 3
\* largest count paraphrase_description is called with
MaxCount == 3
\* longest JSON array the oracle answers paraphrase_description with
MaxVariants == 3

(***************************************************************************)
(* Characters and text primitives.                                         *)
(***************************************************************************)
QUOTE == "\""
NL == "\n"
\* the backquote of a code fence; TLA+ strings cannot hold a backquote, so the
\* model writes it as a tilde (no text of the model uses a tilde otherwise)
BQ == "~"

Whitespace == {" ", "\n"}

Digits == {"0", "1", "2", "3", "4", "5", "6", "7", "8", "9"}

Min(a, b) == IF a < b THEN a ELSE b

\* s[a..b] with Python's clamping: empty when b < a
Slice(s, a, b) == IF b < a THEN <<>> ELSE SubSeq(s, a, b)

\* Python s[:n] for n >= 0
Prefix(s, n) == Slice(s, 1, Min(n, Len(s)))

\* str.strip(): drop leading and trailing whitespace
Strip(s) ==
    LET keep == {i \in 1..Len(s) : s[i] \notin Whitespace}
    IN  IF keep = {} THEN <<>>
        ELSE LET lo == CHOOSE i \in keep : \A j \in keep : i <= j
                 hi == CHOOSE i \in keep : \A j \in keep : j <= i
             IN  SubSeq(s, lo, hi)

\* str.find(c): the first index of c, 0 when absent (Python's -1)
Find(s, c) ==
    LET at == {i \in 1..Len(s) : s[i] = c}
    IN  IF at = {} THEN 0 ELSE CHOOSE i \in at : \A j \in at : i <= j

\* str.rfind(c): the last index of c, 0 when absent (Python's -1)
RFind(s, c) ==
    LET at == {i \in 1..Len(s) : s[i] = c}
    IN  IF at = {} THEN 0 ELSE CHOOSE i \in at : \A j \in at : j <= i

\* the first index >= i holding c, 0 when there is none
FindFrom(s, c, i) ==
    LET at == {j \in i..Len(s) : s[j] = c}
    IN  IF at = {} THEN 0 ELSE CHOOSE j \in at : \A k \in at : j <= k

\* content.startswith(fence), the fence being three backquotes
StartsWithFence(s) ==
    Len(s) >= 3 /\ s[1] = BQ /\ s[2] = BQ /\ s[3] = BQ

\* NL.join(content.split(NL)[1:-1]): the text strictly between the first
\* and the last newline; empty when there are fewer than two newlines
DropFenceLines(s) ==
    LET first == Find(s, NL)
        last == RFind(s, NL)
    IN  IF first = 0 \/ first = last THEN <<>>
        ELSE Slice(s, first + 1, last - 1)

\* the end of the run of characters of set S that starts at i (i - 1 if none)
RECURSIVE RunEnd(_, _, _)
RunEnd(s, i, S) ==
    IF i <= Len(s) /\ s[i] \in S THEN RunEnd(s, i + 1, S) ELSE i - 1

(***************************************************************************)
(* Python values and json.loads, on the characters the model uses:        *)
(* strings (no escapes), numbers, null, arrays and the empty object, with  *)
(* JSON whitespace.  No text of the model holds a colon, so an object with *)
(* a member never parses.                                                  *)
(***************************************************************************)
StrVal(s) == [t |-> "str", s |-> s]

NumVal(lit) == [t |-> "num", lit |-> lit]

ListVal(items) == [t |-> "list", items |-> items]

NoneVal == [t |-> "none"]

SetVal(items) == [t |-> "set", items |-> items]

\* {}, the dict without keys
DictVal == [t |-> "dict"]

IsStr(v) == v.t = "str"

IsList(v) == v.t = "list"

ParseFail == [ok |-> FALSE, v |-> NoneVal, next |-> 0]

ParseOk(v, next) == [ok |-> TRUE, v |-> v, next |-> next]

\* json.decoder.WHITESPACE.match(s, i).end(): the first index >= i that holds
\* no whitespace
SkipWs(s, i) == RunEnd(s, i, Whitespace) + 1

\* json.decoder.py_scanstring (strict): the text up to the closing quote; a
\* control character inside the string, or no closing quote, is an error
ScanString(s, i) ==
    LET close == FindFrom(s, QUOTE, i + 1)
    IN  IF close = 0 THEN ParseFail
        ELSE IF \E j \in (i + 1)..(close - 1) : s[j] = NL THEN ParseFail
        ELSE ParseOk(StrVal(Slice(s, i + 1, close - 1)), close + 1)

\* json.scanner NUMBER_RE: (0|[1-9][0-9]*)(\.[0-9]+)?
ScanNumber(s, i) ==
    LET intEnd == IF s[i] = "0" THEN i ELSE RunEnd(s, i, Digits)
        fracEnd == IF intEnd + 2 <= Len(s) /\ s[intEnd + 1] = "."
                      /\ s[intEnd + 2] \in Digits
                   THEN RunEnd(s, intEnd + 2, Digits)
                   ELSE intEnd
    IN  ParseOk(NumVal(SubSeq(s, i, fracEnd)), fracEnd + 1)

IsNullAt(s, i) ==
    i + 3 <= Len(s) /\ SubSeq(s, i, i + 3) = <<"n", "u", "l", "l">>

\* json.scanner.py_make_scanner._scan_once and json.decoder.JSONArray
RECURSIVE ScanOnce(_, _), ScanArray(_, _, _)
ScanOnce(s, i) ==
    IF i > Len(s) THEN ParseFail
    ELSE IF s[i] = QUOTE THEN ScanString(s, i)
    ELSE IF s[i] = "[" THEN
        LET j == SkipWs(s, i + 1)
        IN  IF j <= Len(s) /\ s[j] = "]" THEN ParseOk(ListVal(<<>>), j + 1)
            ELSE ScanArray(s, j, <<>>)
    ELSE IF s[i] = "{" THEN
        LET j == SkipWs(s, i + 1)
        IN  IF j <= Len(s) /\ s[j] = "}" THEN ParseOk(DictVal, j + 1)
            ELSE ParseFail
    ELSE IF IsNullAt(s, i) THEN ParseOk(NoneVal, i + 4)
    ELSE IF s[i] \in Digits THEN ScanNumber(s, i)
    ELSE ParseFail

ScanArray(s, i, acc) ==
    LET r == ScanOnce(s, i)
        j == SkipWs(s, r.next)
    IN  IF ~r.ok \/ j > Len(s) THEN ParseFail
        ELSE IF s[j] = "]" THEN ParseOk(ListVal(Append(acc, r.v)), j + 1)
        ELSE IF s[j] = "," THEN ScanArray(s, SkipWs(s, j + 1), Append(acc, r.v))
        ELSE ParseFail

\* json.loads(s): one value between optional whitespace; anything left over is
\* "Extra data".  ok = FALSE stands for json.JSONDecodeError.
JsonLoads(s) ==
    LET r == ScanOnce(s, SkipWs(s, 1))
    IN  IF r.ok /\ SkipWs(s, r.next) > Len(s) THEN r ELSE ParseFail

(***************************************************************************)
(* The two regular expressions of select_top_k.                            *)
(***************************************************************************)
\* re.sub(r'\d+\.\s*', '', s): scanning left to right, a maximal run of digits
\* followed by a dot is removed together with the whitespace after the dot
RECURSIVE SubNumbering(_, _)
SubNumbering(s, i) ==
    IF i > Len(s) THEN <<>>
    ELSE LET d == RunEnd(s, i, Digits)
         IN  IF d >= i /\ d + 1 <= Len(s) /\ s[d + 1] = "."
             THEN SubNumbering(s, RunEnd(s, d + 2, Whitespace) + 1)
             ELSE <<s[i]>> \o SubNumbering(s, i + 1)

StripNumbering(s) == SubNumbering(s, 1)

\* re.findall(r'"([^"]+)"', s): scanning left to right, a quote, at least one
\* character that is no quote, and the next quote; the scan resumes after the
\* closing quote, or one character on when there is no match here
RECURSIVE FindQuotedFrom(_, _)
FindQuotedFrom(s, i) ==
    IF i > Len(s) THEN <<>>
    ELSE LET close == FindFrom(s, QUOTE, i + 1)
         IN  IF s[i] = QUOTE /\ close > i + 1
             THEN <<StrVal(SubSeq(s, i + 1, close - 1))>> \o FindQuotedFrom(s, close + 1)
             ELSE FindQuotedFrom(s, i + 1)

FindAllQuoted(s) == FindQuotedFrom(s, 1)

(***************************************************************************)
(* Python operations on values.                                            *)
(***************************************************************************)
Returned(v) == [err |-> "none", v |-> v]

Raised(e) == [err |-> e, v |-> NoneVal]

\* v[:n]: a prefix of a list or of a str; TypeError for a number, None or
\* a dict
PySlice(v, n) ==
    IF IsList(v) THEN Returned(ListVal(Prefix(v.items, n)))
    ELSE IF IsStr(v) THEN Returned(StrVal(Prefix(v.s, n)))
    ELSE Raised("TypeError")

\* what "for desc in pool" and random.choice(pool) see: the items of a list,
\* the one-character strings of a str
Iter(v) ==
    IF IsList(v) THEN v.items
    ELSE IF IsStr(v) THEN [i \in 1..Len(v.s) |-> StrVal(<<v.s[i]>>)]
    ELSE <<>>

\* len(v) is defined for str, list and dict, not for a number or None
HasLen(v) == IsStr(v) \/ IsList(v) \/ v.t = "dict"

\* len(v) of a str, a list or the empty dict
PyLen(v) == Len(Iter(v))

(***************************************************************************)
(* utils/manipulations.py: the strategy catalog and the seeder's parsing.  *)
(***************************************************************************)
\* the keys of ADV_PROMPTS
ADV_PROMPTS == {"Au", "Em", "Ex", "Su"}

\* a lookup that falls back silently to some prompt
UnknownStrategyFallsBack(strategy) == FALSE

\* "prompt = ADV_PROMPTS.get(strategy); if not prompt: raise ValueError"
UnknownStrategy(strategy) == strategy \notin ADV_PROMPTS

\* "if content.startswith(fence): content = NL.join(lines[1:-1])"
StripFence(content) ==
    IF StartsWithFence(content) THEN DropFenceLines(content) ELSE content

\* "start = content.find('['); end = content.rfind(']');
\*  if start != -1 and end != -1: content = content[start:end+1]"
SliceBrackets(content) ==
    LET start == Find(content, "[")
        end == RFind(content, "]")
    IN  IF start # 0 /\ end # 0 THEN Slice(content, start, end) ELSE content

\* a return without the slice
SeederNoTruncate(descriptions, pool_size) == Returned(descriptions)

\* a return that fills a short list up to pool_size by repeating its entries
SeederPads(descriptions, pool_size) ==
    IF IsList(descriptions) /\ descriptions.items # <<>>
                            /\ Len(descriptions.items) < pool_size
    THEN Returned(ListVal([i \in 1..pool_size |->
             descriptions.items[((i - 1) % Len(descriptions.items)) + 1]]))
    ELSE PySlice(descriptions, pool_size)

\* json.loads(content) of init_adv_descriptions: no except clause around it
SeederLoads(content) ==
    LET r == JsonLoads(content)
    IN  IF r.ok THEN Returned(r.v) ELSE Raised("JSONDecodeError")

\* "return descriptions[:pool_size]"
SeederTruncate(descriptions, pool_size) == PySlice(descriptions, pool_size)

\* init_adv_descriptions from the oracle's response on: strip, fence, bracket
\* slice, json.loads, truncate
SeederParse(response, pool_size) ==
    LET content == SliceBrackets(StripFence(Strip(response)))
        loaded == SeederLoads(content)
    IN  IF loaded.err # "none" THEN loaded
        ELSE SeederTruncate(loaded.v, pool_size)

(***************************************************************************)
(* ast.literal_eval, as paraphrase_description falls back on it, on texts  *)
(* of brackets, commas, quotes of both kinds, digits, letters, blanks and  *)
(* newlines: str literals (plain and triple-quoted, adjacent ones joined), *)
(* int literals, None, list displays, set displays, the empty dict and the *)
(* tuple a comma at the top level makes.  Backslashes, dots, signs,        *)
(* parentheses, colons and letters directly before a quote (string         *)
(* prefixes) are outside the model.                                        *)
(***************************************************************************)
APOS == "'"

TupleVal(items) == [t |-> "tuple", items |-> items]

\* the characters that end a name or a number
Delimiters == {QUOTE, APOS, "[", "]", "{", "}", ",", " ", NL}

\* the whitespace between tokens: newlines count only inside brackets
PyWs(s, i, depth) ==
    IF depth > 0 THEN RunEnd(s, i, Whitespace) + 1 ELSE RunEnd(s, i, {" "}) + 1

\* the first index >= i where three q in a row start, 0 when there is none
FindTriple(s, q, i) ==
    LET at == {j \in i..(Len(s) - 2) : s[j] = q /\ s[j + 1] = q /\ s[j + 2] = q}
    IN  IF at = {} THEN 0 ELSE CHOOSE j \in at : \A k \in at : j <= k

\* one str literal starting at the quote s[i]
PyString(s, i) ==
    LET q == s[i]
    IN  IF i + 2 <= Len(s) /\ s[i + 1] = q /\ s[i + 2] = q
        THEN LET close == FindTriple(s, q, i + 3)
             IN  IF close = 0 THEN ParseFail
                 ELSE ParseOk(StrVal(Slice(s, i + 3, close - 1)), close + 3)
        ELSE LET close == FindFrom(s, q, i + 1)
             IN  IF close = 0 THEN ParseFail
                 ELSE IF \E j \in (i + 1)..(close - 1) : s[j] = NL THEN ParseFail
                 ELSE ParseOk(StrVal(Slice(s, i + 1, close - 1)), close + 1)

\* an int literal: zeros only, or digits that do not start with a zero, and
\* no name character directly after it
PyNumber(s, i) ==
    LET d == RunEnd(s, i, Digits)
    IN  IF d + 1 <= Len(s) /\ s[d + 1] \notin Delimiters THEN ParseFail
        ELSE IF s[i] = "0" /\ \E j \in i..d : s[j] # "0" THEN ParseFail
        ELSE ParseOk(NumVal(SubSeq(s, i, d)), d + 1)

\* a name: None is a literal, any other name is not
PyName(s, i) ==
    LET d == RunEnd(s, i, {s[j] : j \in i..Len(s)} \ Delimiters)
    IN  IF SubSeq(s, i, d) = <<"N", "o", "n", "e">> THEN ParseOk(NoneVal, d + 1)
        ELSE ParseFail

\* The parser proper.  Each operator takes what was scanned so far as an
\* argument: r is the atom or str literal just read, j the next token.
RECURSIVE PyStrings(_, _, _, _), PyAtom(_, _, _), PyItems(_, _, _, _),
          PySetItems(_, _, _, _), PyTestlist(_, _, _, _)

\* adjacent str literals are one str: after the literal r, whose end is next
PyStringsNext(s, depth, acc, next, j) ==
    IF j <= Len(s) /\ s[j] \in {QUOTE, APOS}
    THEN PyStrings(s, j, depth, acc)
    ELSE ParseOk(StrVal(acc), next)

PyStringsAfter(s, depth, acc, r) ==
    IF ~r.ok THEN ParseFail
    ELSE PyStringsNext(s, depth, acc \o r.v.s, r.next, PyWs(s, r.next, depth))

PyStrings(s, i, depth, acc) == PyStringsAfter(s, depth, acc, PyString(s, i))

\* after the opening bracket: the empty list, or the items
PyList(s, depth, j) ==
    IF j <= Len(s) /\ s[j] = "]" THEN ParseOk(ListVal(<<>>), j + 1)
    ELSE PyItems(s, j, depth, <<>>)

\* set(map(_convert, node.elts)): a list, a set or a dict among the elements
\* is unhashable (TypeError)
PySetClose(acc, next) ==
    IF \E n \in 1..Len(acc) : acc[n].t \in {"list", "set", "dict"} THEN ParseFail
    ELSE ParseOk(SetVal({acc[n] : n \in 1..Len(acc)}), next)

\* after the opening brace: the empty dict, or the elements of a set
PyBrace(s, depth, j) ==
    IF j <= Len(s) /\ s[j] = "}" THEN ParseOk(DictVal, j + 1)
    ELSE PySetItems(s, j, depth, <<>>)

PyAtom(s, i, depth) ==
    IF i > Len(s) THEN ParseFail
    ELSE IF s[i] \in {QUOTE, APOS} THEN PyStrings(s, i, depth, <<>>)
    ELSE IF s[i] = "[" THEN PyList(s, depth + 1, PyWs(s, i + 1, depth + 1))
    ELSE IF s[i] = "{" THEN PyBrace(s, depth + 1, PyWs(s, i + 1, depth + 1))
    ELSE IF s[i] \in Digits THEN PyNumber(s, i)
    ELSE IF s[i] \in Delimiters THEN ParseFail
    ELSE PyName(s, i)

\* the items of a list display, a trailing comma allowed
PyItemsMore(s, depth, acc, k) ==
    IF k <= Len(s) /\ s[k] = "]" THEN ParseOk(ListVal(acc), k + 1)
    ELSE PyItems(s, k, depth, acc)

PyItemsSep(s, depth, acc, j) ==
    IF j > Len(s) THEN ParseFail
    ELSE IF s[j] = "]" THEN ParseOk(ListVal(acc), j + 1)
    ELSE IF s[j] = "," THEN PyItemsMore(s, depth, acc, PyWs(s, j + 1, depth))
    ELSE ParseFail

PyItemsAfter(s, depth, acc, r) ==
    IF ~r.ok THEN ParseFail
    ELSE PyItemsSep(s, depth, Append(acc, r.v), PyWs(s, r.next, depth))

PyItems(s, i, depth, acc) == PyItemsAfter(s, depth, acc, PyAtom(s, i, depth))

\* the elements of a set display, a trailing comma allowed
PySetItemsMore(s, depth, acc, k) ==
    IF k <= Len(s) /\ s[k] = "}" THEN PySetClose(acc, k + 1)
    ELSE PySetItems(s, k, depth, acc)

PySetItemsSep(s, depth, acc, j) ==
    IF j > Len(s) THEN ParseFail
    ELSE IF s[j] = "}" THEN PySetClose(acc, j + 1)
    ELSE IF s[j] = "," THEN PySetItemsMore(s, depth, acc, PyWs(s, j + 1, depth))
    ELSE ParseFail

PySetItemsAfter(s, depth, acc, r) ==
    IF ~r.ok THEN ParseFail
    ELSE PySetItemsSep(s, depth, Append(acc, r.v), PyWs(s, r.next, depth))

PySetItems(s, i, depth, acc) == PySetItemsAfter(s, depth, acc, PyAtom(s, i, depth))

\* the expression of the one logical line: an atom, or atoms with commas (a
\* tuple, a trailing comma allowed)
PyTestlistMore(s, acc, k) ==
    IF k > Len(s) \/ s[k] = NL THEN ParseOk(TupleVal(acc), k)
    ELSE PyTestlist(s, k, acc, TRUE)

PyTestlistSep(s, acc, comma, v, j) ==
    IF j <= Len(s) /\ s[j] = ","
    THEN PyTestlistMore(s, Append(acc, v), PyWs(s, j + 1, 0))
    ELSE IF comma THEN ParseOk(TupleVal(Append(acc, v)), j)
    ELSE ParseOk(v, j)

PyTestlistAfter(s, acc, comma, r) ==
    IF ~r.ok THEN ParseFail
    ELSE PyTestlistSep(s, acc, comma, r.v, PyWs(s, r.next, 0))

PyTestlist(s, i, acc, comma) == PyTestlistAfter(s, acc, comma, PyAtom(s, i, 0))

\* the start of the first line that is not blank
RECURSIVE SkipBlankLines(_, _)
SkipBlankLines(s, i) ==
    LET j == RunEnd(s, i, {" "}) + 1
    IN  IF j <= Len(s) /\ s[j] = NL THEN SkipBlankLines(s, j + 1) ELSE i

\* what may follow the expression: whitespace only, and when a line follows
\* the expression's line the text must end in a newline (blanks on a last
\* line of their own are an unexpected indent)
BlankTail(s, i) ==
    /\ SkipWs(s, i) > Len(s)
    /\ (\E j \in i..Len(s) : s[j] = NL) => s[Len(s)] = NL

\* ast.literal_eval(s): leading blanks are dropped, blank lines skipped, the
\* first line with a token must not be indented, one expression, and only
\* whitespace after it.  ok = FALSE stands for the SyntaxError, ValueError or
\* TypeError it raises.
LiteralEval(s) ==
    LET first == RunEnd(s, 1, {" "}) + 1
        start == SkipBlankLines(s, first)
        r == PyTestlist(s, start, <<>>, FALSE)
    IN  IF start > Len(s) THEN ParseFail
        ELSE IF start > first /\ s[start] = " " THEN ParseFail
        ELSE IF r.ok /\ BlankTail(s, r.next) THEN r
        ELSE ParseFail

(***************************************************************************)
(* utils/manipulations.py: the parsing of paraphrase_description.          *)
(***************************************************************************)
\* "try: variants = json.loads(content)
\*  except json.JSONDecodeError: variants = ast.literal_eval(content)"
ParaphraseLoads(content) ==
    LET r == JsonLoads(content)
        e == LiteralEval(content)
    IN  IF r.ok THEN Returned(r.v)
        ELSE IF e.ok THEN Returned(e.v)
        ELSE Raised("LiteralEvalError")

\* "if not isinstance(variants, list): variants = [variants]"
EnsureList(variants) == IF IsList(variants) THEN variants ELSE ListVal(<<variants>>)

\* "return variants[:count]"
ParaphraseTruncate(variants, count) == PySlice(variants, count)

\* paraphrase_description from the oracle's response on: strip, fence,
\* json.loads with the literal_eval fallback, wrap, truncate
ParaphraseParse(response, count) ==
    LET loaded == ParaphraseLoads(StripFence(Strip(response)))
    IN  IF loaded.err # "none" THEN loaded
        ELSE ParaphraseTruncate(EnsureList(loaded.v), count)

(***************************************************************************)
(* utils/ga.py: the parsing of select_top_k and of the text operators.     *)
(***************************************************************************)
\* json.loads without the except clause
SelectLoadsNoFallback(content) ==
    LET r == JsonLoads(content)
    IN  IF r.ok THEN Returned(r.v) ELSE Raised("JSONDecodeError")

\* "try: selected = json.loads(content)
\*  except json.JSONDecodeError: selected = re.findall(r'"([^"]+)"', content)"
SelectLoads(content) ==
    LET r == JsonLoads(content)
    IN  IF r.ok THEN Returned(r.v) ELSE Returned(ListVal(FindAllQuoted(content)))

\* a return without the slice
SelectNoTruncate(selected, k) == Returned(selected)

\* a return that insists on k entries
SelectRequiresK(selected, k) ==
    IF HasLen(selected) /\ PyLen(selected) < k THEN Raised("ValueError")
    ELSE PySlice(selected, k)

\* a return of the last k entries: selected[-k:]
SelectTakeLast(selected, k) ==
    IF IsList(selected) /\ Len(selected.items) > k
    THEN Returned(ListVal(SubSeq(selected.items, Len(selected.items) - k + 1,
                                 Len(selected.items))))
    ELSE PySlice(selected, k)

\* a return of one entry more: selected[:k + 1]
SelectTruncateInclusive(selected, k) == PySlice(selected, k + 1)

\* "return selected[:k]"
SelectTruncate(selected, k) == PySlice(selected, k)

\* select_top_k from the oracle's response on: strip, numbering removal,
\* json.loads with the quoted-substring fallback, truncate
SelectTopKParse(response, k) ==
    LET selected == SelectLoads(StripNumbering(Strip(response)))
    IN  IF selected.err # "none" THEN selected
        ELSE SelectTruncate(selected.v, k)

\* a return that parses the answer when it is a JSON string
TextResultLoads(response) ==
    IF JsonLoads(response).ok /\ IsStr(JsonLoads(response).v)
    THEN JsonLoads(response).v
    ELSE StrVal(Strip(response))

\* "return response.choices[0].message.content.strip()" of mutate, crossover
\* and select_top_1
TextResult(response) == StrVal(Strip(response))

(***************************************************************************)
(* The oracle: client.chat.completions.create either raises or returns a   *)
(* text.  The texts it may return to each kind of call are drawn from the  *)
(* sets below, which hold well-formed answers, over-long answers, answers  *)
(* that are no JSON, and JSON of the wrong type.                           *)
(***************************************************************************)
Quoted(x) == <<QUOTE>> \o x \o <<QUOTE>>

\* "x1","x2",...
RECURSIVE JoinQuoted(_)
JoinQuoted(xs) ==
    IF xs = <<>> THEN <<>>
    ELSE IF Len(xs) = 1 THEN Quoted(xs[1])
    ELSE Quoted(xs[1]) \o <<",">> \o JoinQuoted(Tail(xs))

\* the JSON text of a list of texts
ArrayText(xs) == <<"[">> \o JoinQuoted(xs) \o <<"]">>

TxtA == <<"A">>

TxtB == <<"B">>

TxtC == <<"C">>

TxtD == <<"D">>

SeederResponses ==
    { <<"[">> \o Quoted(TxtA) \o <<",", " ">> \o Quoted(TxtB) \o <<"]">>,
      <<"[">> \o Quoted(TxtA) \o <<",">> \o Quoted(TxtB) \o <<",">> \o Quoted(TxtC) \o <<"]">>,
      <<BQ, BQ, BQ, "j", NL, "[">> \o Quoted(TxtA) \o <<"]", NL, BQ, BQ, BQ>>,
      <<"o", "k", " ", "[">> \o Quoted(TxtB) \o <<"]", " ", "o", "k">>,
      <<BQ, BQ, BQ, "j", NL, "[">> \o Quoted(TxtA) \o <<"]", BQ, BQ, BQ>>,
      <<"[", "]">>,
      <<"[", "1", ",">> \o Quoted(TxtA) \o <<"]">>,
      <<"[">> \o Quoted(TxtA) \o <<",", "n", "u", "l", "l", "]">>,
      Quoted(<<"A", "B">>),
      <<"7">>,
      Quoted(TxtA) \o <<" ">> \o Quoted(TxtB),
      <<"A">>,
      <<>> }

\* the oracle's answers to mutate(description)
MutateResponses(description) ==
    { description.s \o <<"!">>, <<" ", "X", NL>> }

\* the oracle's answers to crossover(desc1, desc2)
CrossoverResponses(desc1, desc2) ==
    { <<"X">> }

\* the oracle's answers to select_top_k(descriptions, k)
SelectTopKResponses ==
    { <<"[">> \o Quoted(TxtA) \o <<"]">>,
      <<"[">> \o Quoted(TxtA) \o <<",", " ">> \o Quoted(TxtB) \o <<",">> \o Quoted(TxtC) \o <<"]">>,
      <<"1", ".", " ">> \o Quoted(TxtA) \o <<NL, "2", ".", " ">> \o Quoted(TxtB),
      <<"[", "]">>,
      <<"A", " ", "o", "r", " ", "B">>,
      <<"[", "A", ",", " ">> \o Quoted(TxtB) \o <<"]">>,
      <<QUOTE, "A">>,
      Quoted(<<"A", "B">>),
      <<"1", ".", " ">> \o Quoted(<<"A", "B">>),
      <<"7">> }

\* the oracle's answers to select_top_1(descriptions)
SelectTop1Responses ==
    { <<"A">>, <<" ", "B", NL>>, <<"Z">>,
      Quoted(TxtA),
      <<"[">> \o Quoted(TxtB) \o <<"]">> }

(***************************************************************************)
(* A scripted oracle: one fixed answer to each kind of call.               *)
(***************************************************************************)
\* ["A","B","C","D"]
MockSeederResponses ==
    { <<"[">> \o Quoted(TxtA) \o <<",">> \o Quoted(TxtB) \o <<",">>
            \o Quoted(TxtC) \o <<",">> \o Quoted(TxtD) \o <<"]">> }

\* the description followed by an exclamation mark
MockMutateResponses(description) == { description.s \o <<"!">> }

MockCrossoverResponses(desc1, desc2) == { <<"X">> }

\* ["A","B"]
MockSelectTopKResponses ==
    { <<"[">> \o Quoted(TxtA) \o <<",">> \o Quoted(TxtB) \o <<"]">> }

MockSelectTop1Responses == { <<"A">> }

(***************************************************************************)
(* One Run of gapma_generate_description.                                  *)
(*                                                                         *)
(* pc is the orchestrator's state: Seeding, Evolving, Finalizing, Done, or *)
(* Error when an exception left the function; err names the exception.     *)
(* Inside Evolving, idx counts the descriptions of the for loop already    *)
(* handled and step tells whether the next call is mutate or crossover.    *)
(* calls is the history of oracle calls, seeded the oracle's answer to the  *)
(* seeder and what the seeder made of it, handed the record of the last    *)
(* select_top_k invocation, others the partners random.choice gave to the  *)
(* crossover calls of the generation under way, picked the oracle's answer *)
(* to select_top_1; the five only observe the Run.                         *)
(***************************************************************************)
VARIABLES pc, err, strategy, pool_size, iterations, top_k,
          pool, new_pool, gen, idx, step, mutated, final,
          calls, nMut, nCross, handed, seeded, others, picked

rvars == <<pc, err, strategy, pool_size, iterations, top_k,
           pool, new_pool, gen, idx, step, mutated, final,
           calls, nMut, nCross, handed, seeded, others, picked>>

\* the strategy arguments a Run is started with: a tag of the catalog (after
\* the lookup the four behave alike: the tag only selects the prompt text), a
\* tag that is not in it, and the empty string
Strategies == {"Au", "Best", ""}

NoHanded ==
    [called |-> FALSE, base |-> <<>>, pool |-> <<>>, mutations |-> 0,
     crossovers |-> 0, k |-> 0, answered |-> FALSE, response |-> <<>>,
     out |-> Raised("none")]

NoSeeded == [answered |-> FALSE, response |-> <<>>, out |-> Raised("none")]

NoPicked == [answered |-> FALSE, response |-> <<>>]

RunInit ==
    /\ pc = "Seeding"
    /\ err = "none"
    /\ strategy \in Strategies
    /\ pool_size \in 1..MaxPoolSize
    /\ iterations \in 0..MaxIterations
    /\ top_k \in 1..MaxTopK
    /\ pool = NoneVal
    /\ new_pool = <<>>
    /\ gen = 0
    /\ idx = 0
    /\ step = "mutate"
    /\ mutated = NoneVal
    /\ final = NoneVal
    /\ calls = <<>>
    /\ nMut = 0
    /\ nCross = 0
    /\ handed = NoHanded
    /\ seeded = NoSeeded
    /\ others = <<>>
    /\ picked = NoPicked

\* an exception leaves gapma_generate_description: nothing catches it
Raise(e) ==
    /\ pc' = "Error"
    /\ err' = e

\* an except clause that logs and goes on: the call is made again
OracleFailureSwallowed(kind) ==
    /\ calls' = Append(calls, [kind |-> kind, ok |-> FALSE])
    /\ UNCHANGED <<pc, err>>

\* the "except Exception as e: logger.error(...); raise" around every call
OracleRaises(kind) ==
    /\ calls' = Append(calls, [kind |-> kind, ok |-> FALSE])
    /\ Raise("OracleError")

\* an operation that asks the oracle twice for one result
AnsweredTwice(kind) ==
    calls' = calls \o <<[kind |-> kind, ok |-> TRUE], [kind |-> kind, ok |-> TRUE]>>

\* the oracle returned a text to a call of this kind
Answered(kind) == calls' = Append(calls, [kind |-> kind, ok |-> TRUE])

\* a loop with a convergence test: it stops once the population is empty
AfterGenerationUnlessEmpty(g) ==
    IF g < iterations /\ Iter(pool') # <<>> THEN "Evolving" ELSE "Finalizing"

\* "for _ in range(iterations)": the loop is entered while gen < iterations
AfterGeneration(g) == IF g < iterations THEN "Evolving" ELSE "Finalizing"

(***************************************************************************)
(* Seeding: pool = init_adv_descriptions(raw, strategy, model, pool_size)  *)
(***************************************************************************)
SeedUnknownStrategy ==
    /\ pc = "Seeding"
    /\ UnknownStrategy(strategy)
    /\ Raise("ValueError")
    /\ UNCHANGED <<strategy, pool_size, iterations, top_k, pool, new_pool, gen,
                   idx, step, mutated, final, calls, nMut, nCross, handed, seeded,
                   others, picked>>

SeedOracleRaises ==
    /\ pc = "Seeding"
    /\ ~UnknownStrategy(strategy)
    /\ OracleRaises("seed")
    /\ UNCHANGED <<strategy, pool_size, iterations, top_k, pool, new_pool, gen,
                   idx, step, mutated, final, nMut, nCross, handed, seeded,
                   others, picked>>

\* the oracle answers the seeder's call with one of the given texts
SeedAnsweredWith(responses) ==
    /\ pc = "Seeding"
    /\ ~UnknownStrategy(strategy)
    /\ \E response \in responses :
         LET out == SeederParse(response, pool_size)
         IN  /\ Answered("seed")
             /\ seeded' = [answered |-> TRUE, response |-> response, out |-> out]
             /\ IF out.err # "none"
                THEN Raise(out.err) /\ UNCHANGED pool
                ELSE /\ pool' = out.v
                     /\ pc' = AfterGeneration(0)
                     /\ UNCHANGED err
    /\ UNCHANGED <<strategy, pool_size, iterations, top_k, new_pool, gen,
                   idx, step, mutated, final, nMut, nCross, handed, others, picked>>

SeedAnswered == SeedAnsweredWith(SeederResponses)

(***************************************************************************)
(* Evolving: one generation is the for loop over the pool (a mutate call   *)
(* and a crossover call per description), then pool.extend(new_pool) and   *)
(* pool = ga.select_top_k(pool, top_k, model).                             *)
(***************************************************************************)
\* the description the for loop is at
CurrentDesc == Iter(pool)[idx + 1]

InLoop == pc = "Evolving" /\ idx < Len(Iter(pool))

\* mutate(desc): description.split() raises AttributeError for anything but
\* a str, before the oracle is called
MutateNotText ==
    /\ InLoop /\ step = "mutate"
    /\ ~IsStr(CurrentDesc)
    /\ Raise("AttributeError")
    /\ UNCHANGED <<strategy, pool_size, iterations, top_k, pool, new_pool, gen,
                   idx, step, mutated, final, calls, nMut, nCross, handed, seeded,
                   others, picked>>

MutateOracleRaises ==
    /\ InLoop /\ step = "mutate"
    /\ IsStr(CurrentDesc)
    /\ OracleRaises("mutate")
    /\ UNCHANGED <<strategy, pool_size, iterations, top_k, pool, new_pool, gen,
                   idx, step, mutated, final, nMut, nCross, handed, seeded,
                   others, picked>>

\* the oracle answers the mutate call: the scripted oracle or any oracle
MutateAnsweredWith(scripted) ==
    /\ InLoop /\ step = "mutate"
    /\ IsStr(CurrentDesc)
    /\ \E response \in IF scripted THEN MockMutateResponses(CurrentDesc)
                                  ELSE MutateResponses(CurrentDesc) :
         mutated' = TextResult(response)
    /\ Answered("mutate")
    /\ nMut' = nMut + 1
    /\ step' = "crossover"
    /\ UNCHANGED <<pc, err, strategy, pool_size, iterations, top_k, pool,
                   new_pool, gen, idx, final, nCross, handed, seeded, others, picked>>

MutateAnswered == MutateAnsweredWith(FALSE)

\* a choice among the pool and the variants made so far in the generation
PartnersWithVariants ==
    {Iter(pool)[j] : j \in 1..Len(Iter(pool))}
        \cup {new_pool[j] : j \in 1..Len(new_pool)}

\* "other = random.choice(pool)": any member of the pool as it is now
Partners == {Iter(pool)[j] : j \in 1..Len(Iter(pool))}

\* crossover(desc, other): len(desc2) raises TypeError for a number or None,
\* before the oracle is called
CrossoverNoLen ==
    /\ InLoop /\ step = "crossover"
    /\ \E other \in Partners : ~HasLen(other)
    /\ Raise("TypeError")
    /\ UNCHANGED <<strategy, pool_size, iterations, top_k, pool, new_pool, gen,
                   idx, step, mutated, final, calls, nMut, nCross, handed, seeded,
                   others, picked>>

CrossoverOracleRaises ==
    /\ InLoop /\ step = "crossover"
    /\ \E other \in Partners : HasLen(other)
    /\ OracleRaises("crossover")
    /\ UNCHANGED <<strategy, pool_size, iterations, top_k, pool, new_pool, gen,
                   idx, step, mutated, final, nMut, nCross, handed, seeded,
                   others, picked>>

\* an extend that forgets the mutated variant
ExtendCrossedOnly(variants, mutated_, crossed) == variants \o <<crossed>>

\* "new_pool.extend([mutated, crossed])"
ExtendVariants(variants, mutated_, crossed) == variants \o <<mutated_, crossed>>

\* the oracle answers the crossover call: the scripted oracle or any oracle
CrossoverAnsweredWith(scripted) ==
    /\ InLoop /\ step = "crossover"
    /\ \E other \in Partners :
         /\ HasLen(other)
         /\ \E response \in IF scripted
                               THEN MockCrossoverResponses(CurrentDesc, other)
                               ELSE CrossoverResponses(CurrentDesc, other) :
              /\ new_pool' = ExtendVariants(new_pool, mutated, TextResult(response))
              /\ others' = Append(others, other)
    /\ Answered("crossover")
    /\ nCross' = nCross + 1
    /\ idx' = idx + 1
    /\ step' = "mutate"
    /\ UNCHANGED <<pc, err, strategy, pool_size, iterations, top_k, pool, gen,
                   mutated, final, nMut, handed, seeded, picked>>

CrossoverAnswered == CrossoverAnsweredWith(FALSE)

\* a loop that may be left between two descriptions
LoopDoneEarly == pc = "Evolving" /\ step = "mutate"

\* the for loop over the pool is exhausted
LoopDone == pc = "Evolving" /\ idx = Len(Iter(pool)) /\ step = "mutate"

\* "pool = new_pool" in place of the extend: the parents are dropped
ExpandDropsParents(p, variants) == ListVal(variants)

\* "pool.extend(new_pool)": the pool followed by the new variants
Expand(p, variants) == ListVal(p.items \o variants)

\* what select_top_k is called with, as the Run's observer records it
Handing(expanded) ==
    [called |-> TRUE, base |-> pool.items, pool |-> expanded.items,
     mutations |-> nMut, crossovers |-> nCross, k |-> top_k,
     answered |-> FALSE, response |-> <<>>, out |-> Raised("none")]

\* pool.extend on a str: a str has no extend
ExtendNotList ==
    /\ LoopDone
    /\ ~IsList(pool)
    /\ Raise("AttributeError")
    /\ UNCHANGED <<strategy, pool_size, iterations, top_k, pool, new_pool, gen,
                   idx, step, mutated, final, calls, nMut, nCross, handed, seeded,
                   others, picked>>

SelectOracleRaises ==
    /\ LoopDone
    /\ IsList(pool)
    /\ pool' = Expand(pool, new_pool)
    /\ handed' = Handing(pool')
    /\ OracleRaises("topk")
    /\ UNCHANGED <<strategy, pool_size, iterations, top_k, new_pool, gen,
                   idx, step, mutated, final, nMut, nCross, seeded, others, picked>>

SelectAnsweredWith(responses) ==
    /\ LoopDone
    /\ IsList(pool)
    /\ \E response \in responses :
         LET expanded == Expand(pool, new_pool)
             out == SelectTopKParse(response, top_k)
         IN  /\ handed' = [Handing(expanded) EXCEPT !.answered = TRUE,
                                                    !.response = response,
                                                    !.out = out]
             /\ IF out.err # "none"
                THEN /\ Raise(out.err)
                     /\ pool' = expanded
                     /\ UNCHANGED <<new_pool, gen, idx, nMut, nCross, others>>
                ELSE /\ pool' = out.v
                     /\ new_pool' = <<>>
                     /\ gen' = gen + 1
                     /\ idx' = 0
                     /\ nMut' = 0
                     /\ nCross' = 0
                     /\ others' = <<>>
                     /\ pc' = AfterGeneration(gen + 1)
                     /\ UNCHANGED err
    /\ Answered("topk")
    /\ UNCHANGED <<strategy, pool_size, iterations, top_k, step, mutated, final,
                   seeded, picked>>

SelectAnswered == SelectAnsweredWith(SelectTopKResponses)

(***************************************************************************)
(* Finalizing: final = ga.select_top_1(pool, model); return final          *)
(***************************************************************************)
Top1OracleRaises ==
    /\ pc = "Finalizing"
    /\ OracleRaises("top1")
    /\ UNCHANGED <<strategy, pool_size, iterations, top_k, pool, new_pool, gen,
                   idx, step, mutated, final, nMut, nCross, handed, seeded,
                   others, picked>>

Top1AnsweredWith(responses) ==
    /\ pc = "Finalizing"
    /\ \E response \in responses :
         /\ final' = TextResult(response)
         /\ picked' = [answered |-> TRUE, response |-> response]
    /\ Answered("top1")
    /\ pc' = "Done"
    /\ UNCHANGED <<err, strategy, pool_size, iterations, top_k, pool, new_pool,
                   gen, idx, step, mutated, nMut, nCross, handed, seeded, others>>

Top1Answered == Top1AnsweredWith(SelectTop1Responses)

(***************************************************************************)
(* The generators: main() of gapma_json_generator.py and of                *)
(* competitor_json_generator.py, which persist into tool_descriptions.json.*)
(*                                                                         *)
(* A dict is a function on its keys.  file is the JSON file: whether it    *)
(* exists and the document it holds.  Each writer is a process running     *)
(* one main() at a time: wpc is its position, wkind the generator,         *)
(* wserver/wtool its inputs, wresult what it generated, wdata the          *)
(* document it loaded, wrun the number of the invocation.                  *)
(***************************************************************************)
VARIABLES file, wpc, wkind, wserver, wtool, wresult, wdata, wrun, invocations

pvars == <<file, wpc, wkind, wserver, wtool, wresult, wdata, wrun, invocations>>

\* one call of paraphrase_description: its stage, the count it was called
\* with, the oracle's answer and what the function made of it
VARIABLE para

qvars == <<para>>

\* two Runs going on at once: runs[r] holds the local variables of call r of
\* gapma_generate_description, generator is the state of the one generator of
\* the random module (the number of draws made from it), wrote the Runs that
\* have written each module-level object
VARIABLES runs, generator, wrote

svars == <<runs, generator, wrote>>

\* one call of run_agent_over_csv
VARIABLE csv_run

avars == <<csv_run>>

vars == <<rvars, pvars, qvars, svars, avars>>

Writers == {1, 2}

Servers == {"Weather", "Time"}

Tools == {"get-forecast", "get-alerts"}

\* "strategies = ["Au", "Em", "Ex", "Su"]" of gapma_json_generator.main
strategies == <<"Au", "Em", "Ex", "Su">>

\* the fixed key of competitor_json_generator.main
COMPETITORS == "Competitors"

EmptyDict == [x \in {} |-> {}]

Has(d, k) == k \in DOMAIN d

\* d[k] = v
Put(d, k, v) == [x \in DOMAIN d \cup {k} |-> IF x = k THEN v ELSE d[x]]

\* the final Description that the Run of invocation n returns for a strategy,
\* and the variants paraphrase_description returns to invocation n: opaque
\* texts, told apart by the call that produced them
DescriptionOf(strategy_, n) == [by |-> strategy_, run |-> n]

VariantsOf(n, value) == [by |-> "paraphrase", run |-> n, value |-> value]

\* json.dump can encode str, numbers, None, lists, tuples and dicts; for
\* anything else (a set) the encoder raises TypeError
RECURSIVE JsonSerializable(_)
JsonSerializable(v) ==
    IF v.t \in {"list", "tuple"}
    THEN \A n \in 1..Len(v.items) : JsonSerializable(v.items[n])
    ELSE v.t # "set"

\* the oracle's answers to the paraphrase_description of the competitor
\* generator: ["A","C"], {"A","C"} and ["A",{"C"}]
CompetitorResponses ==
    { ArrayText(<<TxtA, TxtC>>),
      <<"{">> \o Quoted(TxtA) \o <<",">> \o Quoted(TxtC) \o <<"}">>,
      <<"[">> \o Quoted(TxtA) \o <<",", "{">> \o Quoted(TxtC) \o <<"}", "]">> }

PersistInit ==
    /\ file = [exists |-> FALSE, valid |-> TRUE, data |-> EmptyDict]
    /\ wpc = [w \in Writers |-> "idle"]
    /\ wkind = [w \in Writers |-> "gapma"]
    /\ wserver = [w \in Writers |-> "Weather"]
    /\ wtool = [w \in Writers |-> "get-forecast"]
    /\ wresult = [w \in Writers |-> EmptyDict]
    /\ wdata = [w \in Writers |-> EmptyDict]
    /\ wrun = [w \in Writers |-> 0]
    /\ invocations = 0

\* main() starts: the three input() prompts
Invoke(w) ==
    /\ wpc[w] = "idle"
    /\ invocations < MaxInvocations
    /\ invocations' = invocations + 1
    /\ wrun' = [wrun EXCEPT ![w] = invocations + 1]
    /\ \E kind \in {"gapma", "competitor"}, server \in Servers, tool \in Tools :
         /\ wkind' = [wkind EXCEPT ![w] = kind]
         /\ wserver' = [wserver EXCEPT ![w] = server]
         /\ wtool' = [wtool EXCEPT ![w] = tool]
    /\ wresult' = [wresult EXCEPT ![w] = EmptyDict]
    /\ wdata' = [wdata EXCEPT ![w] = EmptyDict]
    /\ wpc' = [wpc EXCEPT ![w] = "generating"]
    /\ UNCHANGED file

\* the strategy whose Run the dict comprehension is at
NextStrategy(w) == strategies[Cardinality(DOMAIN wresult[w]) + 1]

\* one more entry of "{strat: gapma_generate_description(raw_desc, strat, model)
\* for strat in strategies}": the Run returned its final Description
GapmaRunReturns(w) ==
    /\ wpc[w] = "generating" /\ wkind[w] = "gapma"
    /\ Cardinality(DOMAIN wresult[w]) < Len(strategies)
    /\ wresult' = [wresult EXCEPT ![w] =
                     Put(@, NextStrategy(w), DescriptionOf(NextStrategy(w), wrun[w]))]
    /\ wpc' = [wpc EXCEPT ![w] =
                 IF Cardinality(DOMAIN wresult[w]) + 1 = Len(strategies)
                 THEN "generated" ELSE "generating"]
    /\ UNCHANGED <<file, wkind, wserver, wtool, wdata, wrun, invocations>>

\* the Run raised: "except Exception as e: logger.error(...); raise"
GapmaRunRaises(w) ==
    /\ wpc[w] = "generating" /\ wkind[w] = "gapma"
    /\ wpc' = [wpc EXCEPT ![w] = "idle"]
    /\ UNCHANGED <<file, wkind, wserver, wtool, wresult, wdata, wrun, invocations>>

\* "variants = paraphrase_description(raw_desc, model, count=5)"
ParaphraseReturns(w) ==
    /\ wpc[w] = "generating" /\ wkind[w] = "competitor"
    /\ \E response \in CompetitorResponses :
         LET out == ParaphraseParse(response, 5)
         IN  /\ out.err = "none"
             /\ wresult' = [wresult EXCEPT ![w] =
                              Put(EmptyDict, COMPETITORS, VariantsOf(wrun[w], out.v))]
    /\ wpc' = [wpc EXCEPT ![w] = "generated"]
    /\ UNCHANGED <<file, wkind, wserver, wtool, wdata, wrun, invocations>>

\* paraphrase_description raised; main() has no handler
ParaphraseRaises(w) ==
    /\ wpc[w] = "generating" /\ wkind[w] = "competitor"
    /\ wpc' = [wpc EXCEPT ![w] = "idle"]
    /\ UNCHANGED <<file, wkind, wserver, wtool, wresult, wdata, wrun, invocations>>

\* "if os.path.exists(data_file): data = json.load(f) else: data = {}"
\* json.load raises JSONDecodeError on a file that holds no JSON document,
\* and main() has no handler
Load(w) ==
    /\ wpc[w] = "generated"
    /\ IF file.exists /\ ~file.valid
       THEN /\ wpc' = [wpc EXCEPT ![w] = "idle"]
            /\ UNCHANGED wdata
       ELSE /\ wdata' = [wdata EXCEPT ![w] =
                           IF file.exists THEN file.data ELSE EmptyDict]
            /\ wpc' = [wpc EXCEPT ![w] = "loaded"]
    /\ UNCHANGED <<file, wkind, wserver, wtool, wresult, wrun, invocations>>

\* "if server not in data: data[server] = {}"
EnsureServer(data, server) ==
    IF Has(data, server) THEN data ELSE Put(data, server, EmptyDict)

\* gapma_json_generator: "data[server][tool] = descriptions"
GapmaMerge(data, server, tool, descriptions) ==
    LET d == EnsureServer(data, server)
    IN  Put(d, server, Put(d[server], tool, descriptions))

\* competitor_json_generator: "if tool not in data[server]:
\* data[server][tool] = {}" and "data[server][tool]["Competitors"] = variants"
CompetitorMerge(data, server, tool, variants) ==
    LET d == EnsureServer(data, server)
        entry == IF Has(d[server], tool) THEN d[server][tool] ELSE EmptyDict
    IN  Put(d, server, Put(d[server], tool, Put(entry, COMPETITORS, variants)))

Merged(w) ==
    IF wkind[w] = "gapma"
    THEN GapmaMerge(wdata[w], wserver[w], wtool[w], wresult[w])
    ELSE CompetitorMerge(wdata[w], wserver[w], wtool[w], wresult[w][COMPETITORS])

\* what the generator is about to write can be encoded by json.dump: the
\* document came from json.load and the final Descriptions are str, so it is
\* the variants that decide
Dumpable(w) ==
    wkind[w] = "gapma" \/ JsonSerializable(wresult[w][COMPETITORS].value)

\* the merge and "with open(data_file, "w") as f: json.dump(data, f, indent=2)".
\* open(..., "w") empties the file and json.dump writes the document piece by
\* piece: when the encoder raises TypeError the file is left with the start
\* of a document, which is no JSON (valid = FALSE, no data), and main() ends
\* with the exception.
WriteBack(w) ==
    /\ wpc[w] = "loaded"
    /\ file' = IF Dumpable(w)
               THEN [exists |-> TRUE, valid |-> TRUE, data |-> Merged(w)]
               ELSE [exists |-> TRUE, valid |-> FALSE, data |-> EmptyDict]
    /\ wpc' = [wpc EXCEPT ![w] = "idle"]
    /\ UNCHANGED <<wkind, wserver, wtool, wresult, wdata, wrun, invocations>>

(***************************************************************************)
(* paraphrase_description(raw_desc, model, count), called once.            *)
(***************************************************************************)
\* the oracle's answers to paraphrase_description: the JSON arrays of at most
\* MaxVariants texts (repeated texts among them), and answers in other forms
ParaphraseResponses ==
    { ArrayText(xs) :
          xs \in UNION {[1..n -> {TxtA, TxtC}] : n \in 0..MaxVariants} }
    \cup
    { <<"[", APOS, "A", APOS, "]">>,
      <<"[">> \o Quoted(TxtA) \o <<",", "]">>,
      Quoted(TxtA) \o <<",">> \o Quoted(TxtC),
      Quoted(TxtA) \o <<" ">> \o Quoted(TxtC),
      Quoted(<<"A", "C">>),
      <<"7">>,
      <<"A">>,
      <<BQ, BQ, BQ, "j", NL, "[">> \o Quoted(TxtA) \o <<",">> \o Quoted(TxtA)
          \o <<"]", NL, BQ, BQ, BQ>>,
      <<BQ, BQ, BQ, "[">> \o Quoted(TxtA) \o <<"]", BQ, BQ, BQ>>,
      <<"o", "k", " ", "[">> \o Quoted(TxtA) \o <<"]">>,
      <<>>,
      <<"[", " ">> \o Quoted(TxtA) \o <<" ", ",", " ">> \o Quoted(TxtC) \o <<" ", "]">>,
      <<"N", "o", "n", "e">>,
      <<"[", "7", ",">> \o Quoted(TxtA) \o <<"]">>,
      <<" ", "[">> \o Quoted(TxtC) \o <<"]", NL>>,
      <<"[", "[">> \o Quoted(TxtA) \o <<"]", "]">>,
      <<"n", "u", "l", "l">>,
      <<APOS, "A", APOS>>,
      <<"{">> \o Quoted(TxtA) \o <<",">> \o Quoted(TxtC) \o <<"}">>,
      <<"{", "}">> }

NoPara == [stage |-> "idle", count |-> 0, response |-> <<>>, out |-> Raised("none")]

\* paraphrase_description is not being called
ParaParked == para = NoPara

ParaInit ==
    \E count \in 1..MaxCount :
        para = [stage |-> "calling", count |-> count, response |-> <<>>,
                out |-> Raised("none")]

\* "except Exception as e: logger.error(...); raise" around the oracle call
ParaphraseOracleRaises ==
    /\ para.stage = "calling"
    /\ para' = [para EXCEPT !.stage = "raised", !.out = Raised("OracleError")]

\* the oracle answered: the rest of paraphrase_description
ParaphraseAnswered ==
    /\ para.stage = "calling"
    /\ \E response \in ParaphraseResponses :
         LET out == ParaphraseParse(response, para.count)
         IN  para' = [para EXCEPT
                        !.stage = IF out.err = "none" THEN "returned" ELSE "raised",
                        !.response = response,
                        !.out = out]

(***************************************************************************)
(* client/agent.py: run_agent_over_csv.                                    *)
(***************************************************************************)
NoCsvRun == [pc |-> "idle"]

AgentParked == csv_run = NoCsvRun

(***************************************************************************)
(* Two calls of gapma_generate_description going on at once.  Every name   *)
(* the function assigns is a local variable of the call; the module-level  *)
(* objects it uses are the client (built once at import and never          *)
(* assigned again) and the generator behind random.choice, which every     *)
(* draw advances.  The oracle answers with well-formed texts here, so that *)
(* a Run ends in Done or in the oracle's exception.                        *)
(***************************************************************************)
RunIds == {1, 2}

\* largest pool_size of the Runs going on at once
MaxRunsPoolSize == 2

\* the module-level objects a Run uses
ModuleObjects == {"client", "random"}

\* ["A","B"] and ["B"]
RunsSeederResponses ==
    { ArrayText(<<TxtA, TxtB>>), ArrayText(<<TxtB>>) }

\* ["A"] and ["B","A"]
RunsSelectResponses ==
    { ArrayText(<<TxtA>>), ArrayText(<<TxtB, TxtA>>) }

RunsTop1Responses == { TxtA, TxtB }

\* what the oracle's exception leaves in the log of a Run
RAISED == <<"!", "!">>

\* the locals of a call that has not started: heard is the log of what the
\* oracle gave the call, chosen that of what random.choice gave it
FreshRun(pool_size_, iterations_, top_k_) ==
    [pc |-> "Seeding", pool_size |-> pool_size_, iterations |-> iterations_,
     top_k |-> top_k_, pool |-> NoneVal, new_pool |-> <<>>, gen |-> 0,
     idx |-> 0, step |-> "mutate", mutated |-> NoneVal, final |-> NoneVal,
     heard |-> <<>>, chosen |-> <<>>]

RunsParked ==
    /\ runs = [r \in RunIds |-> FreshRun(1, 0, 1)]
    /\ generator = 0
    /\ wrote = [o \in ModuleObjects |-> {}]

RunsInit ==
    /\ runs \in [RunIds -> {FreshRun(P, 1, k) : P \in 1..MaxRunsPoolSize, k \in 1..MaxTopK}]
    /\ generator = 0
    /\ wrote = [o \in ModuleObjects |-> {}]

\* a module in which pool and the other names are globals: every call
\* assigns the same variables
FrameShared(r) == RunIds

\* the calls whose variables an assignment made by call r changes: its own
Frame(r) == {r}

\* call r assigns its variables
Assign(r, locals) == runs' = [q \in RunIds |-> IF q \in Frame(r) THEN locals ELSE runs[q]]

\* "pool = init_adv_descriptions(raw_desc, strategy, model, pool_size)"
RunSeeds(r) ==
    /\ runs[r].pc = "Seeding"
    /\ \E response \in RunsSeederResponses :
         Assign(r, [runs[r] EXCEPT
                      !.pool = SeederParse(response, runs[r].pool_size).v,
                      !.pc = IF 0 < runs[r].iterations THEN "Evolving" ELSE "Finalizing",
                      !.heard = Append(@, response)])
    /\ UNCHANGED <<generator, wrote>>

RunInLoop(r) == runs[r].pc = "Evolving" /\ runs[r].idx < Len(Iter(runs[r].pool))

\* "mutated = ga.mutate(desc, model)"
RunMutates(r) ==
    /\ RunInLoop(r) /\ runs[r].step = "mutate"
    /\ \E response \in MockMutateResponses(Iter(runs[r].pool)[runs[r].idx + 1]) :
         Assign(r, [runs[r] EXCEPT !.mutated = TextResult(response),
                                   !.step = "crossover",
                                   !.heard = Append(@, response)])
    /\ UNCHANGED <<generator, wrote>>

\* "other = random.choice(pool); crossed = ga.crossover(desc, other, model);
\*  new_pool.extend([mutated, crossed])": the draw advances the generator of
\* the random module, then the oracle answers or raises
RunCrosses(r) ==
    /\ RunInLoop(r) /\ runs[r].step = "crossover"
    /\ generator' = generator + 1
    /\ wrote' = [wrote EXCEPT !["random"] = @ \cup {r}]
    /\ \E n \in 1..Len(Iter(runs[r].pool)) :
         LET desc == Iter(runs[r].pool)[runs[r].idx + 1]
             other == Iter(runs[r].pool)[n]
         IN  \/ \E response \in CrossoverResponses(desc, other) :
                  Assign(r, [runs[r] EXCEPT
                               !.new_pool = ExtendVariants(@, runs[r].mutated,
                                                           TextResult(response)),
                               !.idx = @ + 1,
                               !.step = "mutate",
                               !.chosen = Append(@, other),
                               !.heard = Append(@, response)])
             \/ Assign(r, [runs[r] EXCEPT !.pc = "Error",
                                          !.chosen = Append(@, other),
                                          !.heard = Append(@, RAISED)])

\* "pool.extend(new_pool); pool = ga.select_top_k(pool, top_k, model)"
RunSelects(r) ==
    /\ runs[r].pc = "Evolving" /\ runs[r].idx = Len(Iter(runs[r].pool))
    /\ \E response \in RunsSelectResponses :
         Assign(r, [runs[r] EXCEPT
                      !.pool = SelectTopKParse(response, runs[r].top_k).v,
                      !.new_pool = <<>>,
                      !.gen = @ + 1,
                      !.idx = 0,
                      !.pc = IF runs[r].gen + 1 < runs[r].iterations
                             THEN "Evolving" ELSE "Finalizing",
                      !.heard = Append(@, response)])
    /\ UNCHANGED <<generator, wrote>>

\* "final = ga.select_top_1(pool, model); return final"
RunFinalizes(r) ==
    /\ runs[r].pc = "Finalizing"
    /\ \E response \in RunsTop1Responses :
         Assign(r, [runs[r] EXCEPT !.final = TextResult(response),
                                   !.pc = "Done",
                                   !.heard = Append(@, response)])
    /\ UNCHANGED <<generator, wrote>>

\* the oracle raises in the seeder, in mutate, in select_top_k or in
\* select_top_1: the exception leaves the call
RunOracleRaises(r) ==
    /\ \/ runs[r].pc \in {"Seeding", "Finalizing"}
       \/ runs[r].pc = "Evolving" /\ runs[r].step = "mutate"
    /\ Assign(r, [runs[r] EXCEPT !.pc = "Error", !.heard = Append(@, RAISED)])
    /\ UNCHANGED <<generator, wrote>>

(***************************************************************************)
(* Specifications.                                                         *)
(*   Spec          one Run, every oracle outcome                           *)
(*   SpecPersist   generator invocations one after the other               *)
(***************************************************************************)
\* the Run is not part of SpecPersist: a finished Run that stays as it is
RunParked ==
    /\ pc = "Done" /\ err = "none" /\ strategy = "Au"
    /\ pool_size = 1 /\ iterations = 0 /\ top_k = 1
    /\ pool = ListVal(<<>>) /\ new_pool = <<>> /\ gen = 0 /\ idx = 0
    /\ step = "mutate" /\ mutated = NoneVal /\ final = StrVal(<<>>)
    /\ calls = <<[kind |-> "seed", ok |-> TRUE], [kind |-> "top1", ok |-> TRUE]>>
    /\ nMut = 0 /\ nCross = 0 /\ handed = NoHanded /\ seeded = NoSeeded
    /\ others = <<>> /\ picked = NoPicked

Init == RunInit /\ PersistInit /\ ParaParked /\ RunsParked /\ AgentParked

Next ==
    \/ SeedUnknownStrategy /\ UNCHANGED <<pvars, qvars, svars, avars>>
    \/ SeedOracleRaises /\ UNCHANGED <<pvars, qvars, svars, avars>>
    \/ SeedAnswered /\ UNCHANGED <<pvars, qvars, svars, avars>>
    \/ MutateNotText /\ UNCHANGED <<pvars, qvars, svars, avars>>
    \/ MutateOracleRaises /\ UNCHANGED <<pvars, qvars, svars, avars>>
    \/ MutateAnswered /\ UNCHANGED <<pvars, qvars, svars, avars>>
    \/ CrossoverNoLen /\ UNCHANGED <<pvars, qvars, svars, avars>>
    \/ CrossoverOracleRaises /\ UNCHANGED <<pvars, qvars, svars, avars>>
    \/ CrossoverAnswered /\ UNCHANGED <<pvars, qvars, svars, avars>>
    \/ ExtendNotList /\ UNCHANGED <<pvars, qvars, svars, avars>>
    \/ SelectOracleRaises /\ UNCHANGED <<pvars, qvars, svars, avars>>
    \/ SelectAnswered /\ UNCHANGED <<pvars, qvars, svars, avars>>
    \/ Top1OracleRaises /\ UNCHANGED <<pvars, qvars, svars, avars>>
    \/ Top1Answered /\ UNCHANGED <<pvars, qvars, svars, avars>>

Spec == Init /\ [][Next]_vars

\* the process that runs the generators when they run one after the other
Operator == 1

PersistNext ==
    \/ Invoke(Operator) /\ UNCHANGED <<rvars, qvars, svars, avars>>
    \/ GapmaRunReturns(Operator) /\ UNCHANGED <<rvars, qvars, svars, avars>>
    \/ GapmaRunRaises(Operator) /\ UNCHANGED <<rvars, qvars, svars, avars>>
    \/ ParaphraseReturns(Operator) /\ UNCHANGED <<rvars, qvars, svars, avars>>
    \/ ParaphraseRaises(Operator) /\ UNCHANGED <<rvars, qvars, svars, avars>>
    \/ Load(Operator) /\ UNCHANGED <<rvars, qvars, svars, avars>>
    \/ WriteBack(Operator) /\ UNCHANGED <<rvars, qvars, svars, avars>>

InitPersist == RunParked /\ PersistInit /\ ParaParked /\ RunsParked /\ AgentParked

SpecPersist == InitPersist /\ [][PersistNext]_vars

(***************************************************************************)
(*   SpecSelect    select_top_k on its own: called once with a pool drawn  *)
(*                 from SelectPools, every k and every oracle outcome      *)
(***************************************************************************)
SelectPools ==
    UNION {[1..n -> {StrVal(TxtA), StrVal(TxtB)}] : n \in 0..MaxSelectPool}

InitSelect ==
    /\ pc = "Evolving" /\ err = "none" /\ strategy = "Au"
    /\ pool_size = 1 /\ iterations = 1
    /\ top_k \in 1..MaxTopK
    /\ \E p \in SelectPools : pool = ListVal(p) /\ idx = Len(p)
    /\ new_pool = <<>> /\ gen = 0 /\ step = "mutate"
    /\ mutated = NoneVal /\ final = NoneVal
    /\ calls = <<>> /\ nMut = 0 /\ nCross = 0
    /\ handed = NoHanded /\ seeded = NoSeeded
    /\ others = <<>> /\ picked = NoPicked
    /\ PersistInit
    /\ ParaParked
    /\ RunsParked
    /\ AgentParked

NextSelect ==
    \/ SelectOracleRaises /\ UNCHANGED <<pvars, qvars, svars, avars>>
    \/ SelectAnswered /\ UNCHANGED <<pvars, qvars, svars, avars>>

SpecSelect == InitSelect /\ [][NextSelect]_vars

(***************************************************************************)
(*   SpecLive      one Run with the largest pool_size, which goes on as    *)
(*                 long as it can: each step is the interpreter going on   *)
(*                 or a blocking oracle call coming back (with an answer   *)
(*                 or an exception)                                        *)
(***************************************************************************)
InitLive == Init /\ pool_size = MaxPoolSize

SpecLive == InitLive /\ [][Next]_vars /\ WF_vars(Next)

(***************************************************************************)
(*   SpecMock      one Run against the scripted oracle: strategy Em,       *)
(*                 pool_size 4, iterations 1, top_k 2; what is left open   *)
(*                 is random.choice                                        *)
(***************************************************************************)
InitMock ==
    /\ pc = "Seeding" /\ err = "none" /\ strategy = "Em"
    /\ pool_size = 4 /\ iterations = 1 /\ top_k = 2
    /\ pool = NoneVal /\ new_pool = <<>> /\ gen = 0 /\ idx = 0
    /\ step = "mutate" /\ mutated = NoneVal /\ final = NoneVal
    /\ calls = <<>> /\ nMut = 0 /\ nCross = 0
    /\ handed = NoHanded /\ seeded = NoSeeded
    /\ others = <<>> /\ picked = NoPicked
    /\ PersistInit
    /\ ParaParked
    /\ RunsParked
    /\ AgentParked

NextMock ==
    \/ SeedAnsweredWith(MockSeederResponses) /\ UNCHANGED <<pvars, qvars, svars, avars>>
    \/ MutateAnsweredWith(TRUE) /\ UNCHANGED <<pvars, qvars, svars, avars>>
    \/ CrossoverAnsweredWith(TRUE) /\ UNCHANGED <<pvars, qvars, svars, avars>>
    \/ SelectAnsweredWith(MockSelectTopKResponses) /\ UNCHANGED <<pvars, qvars, svars, avars>>
    \/ Top1AnsweredWith(MockSelectTop1Responses) /\ UNCHANGED <<pvars, qvars, svars, avars>>

SpecMock == InitMock /\ [][NextMock]_vars

(***************************************************************************)
(*   SpecParaphrase  paraphrase_description called once, every count and   *)
(*                   every oracle outcome                                  *)
(***************************************************************************)
InitParaphrase == RunParked /\ PersistInit /\ ParaInit /\ RunsParked /\ AgentParked

NextParaphrase ==
    \/ ParaphraseOracleRaises /\ UNCHANGED <<rvars, pvars, svars, avars>>
    \/ ParaphraseAnswered /\ UNCHANGED <<rvars, pvars, svars, avars>>

SpecParaphrase == InitParaphrase /\ [][NextParaphrase]_vars

(***************************************************************************)
(*   SpecRuns      two Runs at once, their steps interleaved in any order  *)
(***************************************************************************)
InitRuns == RunParked /\ PersistInit /\ ParaParked /\ RunsInit /\ AgentParked

NextRuns ==
    \E r \in RunIds :
        \/ RunSeeds(r) /\ UNCHANGED <<rvars, pvars, qvars, avars>>
        \/ RunMutates(r) /\ UNCHANGED <<rvars, pvars, qvars, avars>>
        \/ RunCrosses(r) /\ UNCHANGED <<rvars, pvars, qvars, avars>>
        \/ RunSelects(r) /\ UNCHANGED <<rvars, pvars, qvars, avars>>
        \/ RunFinalizes(r) /\ UNCHANGED <<rvars, pvars, qvars, avars>>
        \/ RunOracleRaises(r) /\ UNCHANGED <<rvars, pvars, qvars, avars>>

SpecRuns == InitRuns /\ [][NextRuns]_vars

(***************************************************************************)
(* Properties.                                                             *)
(***************************************************************************)
\* the members of a population
Members(v) == {Iter(v)[i] : i \in 1..Len(Iter(v))}

\* C1: the final Description a Run returns is a member of the last
\* Population of that Run (the pool select_top_1 was given).  A Run whose
\* last Population is empty cannot satisfy this at all; the formula is
\* stated for the Runs that end with a non-empty list of texts.
C1_FinalDrawnFromLastPopulation ==
    (pc = "Done" /\ IsList(pool) /\ Members(pool) # {}
                 /\ \A d \in Members(pool) : IsStr(d))
        => final \in Members(pool)

RecoveredFrom(response) ==
    LET content == StripNumbering(Strip(response))
    IN  IF JsonLoads(content).ok THEN JsonLoads(content).v
        ELSE ListVal(FindAllQuoted(content))

Entry(doc, server, tool) ==
    IF Has(doc, server) /\ Has(doc[server], tool) THEN doc[server][tool]
    ELSE EmptyDict

\* the keys a generator writes under (server, tool)
WrittenKeys(kind) ==
    IF kind = "gapma" THEN {"Au", "Em", "Ex", "Su"} ELSE {"Competitors"}

\* C3: a generator write to (server, tool) that leaves a document keeps
\* every sibling key that was there and that it does not itself write, with
\* its value.
C3_SiblingKeysKept ==
    [][WriteBack(Operator) /\ file'.valid =>
        LET before == Entry(file.data, wserver[Operator], wtool[Operator])
            after == Entry(file'.data, wserver[Operator], wtool[Operator])
        IN  \A k \in DOMAIN before :
                k \notin WrittenKeys(wkind[Operator])
                    => Has(after, k) /\ after[k] = before[k]]_vars

\* C4: a strategy outside {Au, Em, Ex, Su} ends the Run in the ValueError of
\* init_adv_descriptions, and the oracle is never called.
C4_UnknownStrategyFailsClosed ==
    strategy \notin {"Au", "Em", "Ex", "Su"}
        => /\ calls = <<>>
           /\ pc \in {"Seeding", "Error"}
           /\ pc = "Error" => err = "ValueError"
           /\ pool = NoneVal /\ final = NoneVal

C4_Witness ==
    strategy = "Best" /\ pc = "Error" /\ err = "ValueError" /\ calls = <<>>

\* C5: the pool handed to select_top_k is the current population of size m,
\* unchanged, followed by the results of exactly m mutate calls and exactly
\* m crossover calls: 3m entries.
C5_ExpandedPoolIsTriple ==
    handed.called =>
        LET m == Len(handed.base)
        IN  /\ Len(handed.pool) = 3 * m
            /\ SubSeq(handed.pool, 1, m) = handed.base
            /\ handed.mutations = m
            /\ handed.crossovers = m
            /\ Cardinality({c \in 1..Len(calls) : calls[c].kind = "mutate"
                              /\ calls[c].ok}) >= m

C5_Witness ==
    handed.called /\ Len(handed.base) = 2 /\ Len(handed.pool) = 6

\* the number of oracle calls of a kind made so far
CountKind(kind) == Cardinality({i \in 1..Len(calls) : calls[i].kind = kind})

C7_OracleFailureAborts ==
    \A i \in 1..Len(calls) :
        ~calls[i].ok
            => /\ i = Len(calls)
               /\ pc = "Error"
               /\ err = "OracleError"
               /\ final = NoneVal

C7_Witness ==
    /\ Len(calls) >= 3
    /\ calls[Len(calls)] = [kind |-> "crossover", ok |-> FALSE]
    /\ pc = "Error"

\* x occurs in s as a run of consecutive characters
IsSubstring(x, s) ==
    \E i \in 1..(Len(s) - Len(x) + 1) : SubSeq(s, i, i + Len(x) - 1) = x

QuoteCount(s) == Cardinality({i \in 1..Len(s) : s[i] = QUOTE})

SeederContent(response) == SliceBrackets(StripFence(Strip(response)))

\* C9: when what the seeder hands to json.loads is no JSON, the seeder does
\* not raise.
C9_SeederParseFailureIsNotFatal ==
    (seeded.answered /\ ~JsonLoads(SeederContent(seeded.response)).ok)
        => seeded.out.err = "none" /\ pc # "Error"

\* C10: the Population the seeder returns has at most P entries: it is the
\* first P entries of what the oracle's answer parses to, all of them when
\* there are fewer than P.
C10_SeederReturnsAtMostP ==
    (seeded.answered /\ seeded.out.err = "none") =>
        LET all == SeederParse(seeded.response, Len(seeded.response)).v
        IN  /\ PyLen(seeded.out.v) <= pool_size
            /\ PyLen(seeded.out.v) = Min(pool_size, PyLen(all))
            /\ seeded.out.v.t = all.t
            /\ \A i \in 1..PyLen(seeded.out.v) : Iter(seeded.out.v)[i] = Iter(all)[i]
            /\ gen = 0 /\ pc # "Error" /\ new_pool = <<>> => pool = seeded.out.v

\* the oracle returned more than P entries and the seeder kept the first P
C10_Witness ==
    /\ seeded.answered /\ seeded.out.err = "none" /\ IsList(seeded.out.v)
    /\ PyLen(SeederParse(seeded.response, Len(seeded.response)).v) > pool_size
    /\ PyLen(seeded.out.v) = pool_size

\* C11: when the oracle's answer to select_top_k is no JSON and holds exactly
\* j double-quoted substrings (j pairs of quotes, none of them empty),
\* select_top_k returns a list of min(j, k) entries.
C11_FallbackRecoversEveryQuoted ==
    (handed.answered /\ ~JsonLoads(handed.response).ok
                     /\ ~IsSubstring(<<QUOTE, QUOTE>>, handed.response))
        => /\ handed.out.err = "none"
           /\ IsList(handed.out.v)
           /\ PyLen(handed.out.v) = Min(QuoteCount(handed.response) \div 2, handed.k)

\* s is t with whitespace, and nothing else, before and after it
IsTrimOf(t, s) ==
    /\ t # <<>> => t[1] \notin Whitespace /\ t[Len(t)] \notin Whitespace
    /\ \E i \in 1..(Len(s) + 1) :
         /\ i + Len(t) - 1 <= Len(s)
         /\ SubSeq(s, i, i + Len(t) - 1) = t
         /\ \A j \in 1..Len(s) : (j < i \/ j >= i + Len(t)) => s[j] \in Whitespace

\* C12: select_top_1 makes one oracle call, and when the oracle answers it
\* returns one str: the answer with the whitespace around it removed and
\* nothing else done to it (quotes and brackets of the answer stay), whatever
\* the pool was.
C12_Top1ReturnsTheAnswerTrimmed ==
    /\ CountKind("top1") <= 1
    /\ picked.answered
         => /\ pc = "Done"
            /\ CountKind("top1") = 1
            /\ IsStr(final)
            /\ IsTrimOf(final.s, picked.response)

\* the oracle answered select_top_1 with a JSON array around whitespace-free
\* text and the Run returned that text as it came, for a non-empty pool
C12_Witness ==
    /\ picked.answered
    /\ Members(pool) # {}
    /\ picked.response = <<"[">> \o Quoted(TxtB) \o <<"]">>
    /\ final = StrVal(picked.response)

\* C13: against the scripted oracle (seeder answer [A, B, C, D], mutate
\* answer the input followed by "!", crossover answer X, select_top_k answer
\* [A, B], select_top_1 answer A) and with strategy Em, pool_size 4,
\* iterations 1, top_k 2, the Run never fails, select_top_k is called with
\* the twelve entries A B C D A! X B! X C! X D! X, and the Run returns A.
C13_MockRunReturnsA ==
    /\ pc # "Error"
    /\ handed.called =>
         /\ Len(handed.pool) = 12
         /\ handed.pool =
              <<StrVal(TxtA), StrVal(TxtB), StrVal(TxtC), StrVal(TxtD),
                StrVal(<<"A", "!">>), StrVal(<<"X">>),
                StrVal(<<"B", "!">>), StrVal(<<"X">>),
                StrVal(<<"C", "!">>), StrVal(<<"X">>),
                StrVal(<<"D", "!">>), StrVal(<<"X">>)>>
         /\ handed.k = 2
    /\ pc \in {"Finalizing", "Done"} =>
         handed.called /\ pool = ListVal(<<StrVal(TxtA), StrVal(TxtB)>>)
    /\ pc = "Done" => final = StrVal(TxtA) /\ Len(calls) = 11

C13_Witness ==
    /\ strategy = "Em" /\ pool_size = 4 /\ iterations = 1 /\ top_k = 2
    /\ pc = "Done" /\ final = StrVal(TxtA)
    /\ Len(handed.pool) = 12

\* the texts the answers of the model are made of
Texts == {TxtA, TxtB, TxtC}

\* the lists of at most n texts
TextLists(n) == UNION {[1..k -> Texts] : k \in 0..n}

\* the list of str values of a list of texts
StrList(xs) == ListVal([i \in 1..Len(xs) |-> StrVal(xs[i])])

\* a fenced code block: the fence and a tag, the body on its own lines, the
\* fence
Fenced(tag, body) == <<BQ, BQ, BQ>> \o tag \o <<NL>> \o body \o <<NL, BQ, BQ, BQ>>

\* C14: when the oracle's answer to the seeder is a fenced code block around
\* the JSON array of n texts and n < P, the seeder returns exactly those n
\* texts: a list of n entries, not filled up to P.
C14_FencedShortArrayKept ==
    (seeded.answered /\ seeded.response # <<>> /\ seeded.response[1] = BQ) =>
        \A xs \in TextLists(MaxPoolSize) : \A tag \in {<<>>, <<"j">>} :
            (seeded.response = Fenced(tag, ArrayText(xs)) /\ Len(xs) < pool_size)
                => /\ seeded.out = Returned(StrList(xs))
                   /\ PyLen(seeded.out.v) = Len(xs)
                   /\ gen = 0 /\ new_pool = <<>> /\ pc # "Error" => pool = StrList(xs)

\* the fenced answer ["A"] with P = 2: a Population of one entry
C14_Witness ==
    /\ seeded.answered
    /\ seeded.response = Fenced(<<"j">>, ArrayText(<<TxtA>>))
    /\ pool_size = 2
    /\ seeded.out = Returned(StrList(<<TxtA>>))
    /\ pc = "Done"

\* C15: when what the seeder hands to json.loads parses to a value that is no
\* list, the seeder returns the one-element list holding that value.
C15_SeederWrapsNonList ==
    LET parsed == JsonLoads(SeederContent(seeded.response))
    IN  (seeded.answered /\ parsed.ok /\ ~IsList(parsed.v))
            => /\ seeded.out = Returned(ListVal(<<parsed.v>>))
               /\ PyLen(seeded.out.v) = 1

\* a text without its blanks
Unspaced(s) == SelectSeq(s, LAMBDA c : c # " ")

\* C16: whenever select_top_k returns, its result is the first min(k, r) of
\* the r entries recovered from the oracle's answer, in the answer's order:
\* entry i of the result is entry i of what was recovered, and when fewer
\* than k were recovered the result is all of them and nothing more, whatever
\* the pool holds.  For an answer that is the JSON array of the texts xs the
\* result is the first min(k, Len(xs)) texts of xs.
C16_ResultIsPrefixOfRecovered ==
    (handed.answered /\ handed.out.err = "none") =>
        LET recovered == RecoveredFrom(handed.response)
            result == handed.out.v
        IN  /\ result.t = recovered.t
            /\ PyLen(result) = Min(handed.k, PyLen(recovered))
            /\ \A i \in 1..PyLen(result) : Iter(result)[i] = Iter(recovered)[i]
            /\ PyLen(recovered) < handed.k => result = recovered
            /\ \A xs \in TextLists(MaxSelectPool) :
                 Unspaced(handed.response) = ArrayText(xs)
                     => result = StrList(Prefix(xs, handed.k))

\* one text was recovered for k = 2 from a pool of three: the result is that
\* one text
C16_Witness ==
    /\ handed.answered /\ handed.out.err = "none"
    /\ handed.response = ArrayText(<<TxtA>>)
    /\ handed.k = 2
    /\ Len(handed.pool) = 3
    /\ handed.out.v = StrList(<<TxtA>>)

\* C17: whenever paraphrase_description returns, the result is a list of at
\* most count entries, and no two of its entries are equal.
C17_ParaphrasesDistinctAtMostCount ==
    para.stage = "returned" =>
        /\ para.out.err = "none"
        /\ IsList(para.out.v)
        /\ Len(para.out.v.items) <= para.count
        /\ \A i, j \in 1..Len(para.out.v.items) :
             i # j => para.out.v.items[i] # para.out.v.items[j]

\* the answer is the JSON array of some texts, blanks aside
IsArrayOfTexts(response) ==
    \E xs \in TextLists(MaxSelectPool) : Unspaced(response) = ArrayText(xs)

\* the Run of a strategy of the catalog failed though no oracle call did
FailedWithoutOracleFailure ==
    pc = "Error" /\ err # "OracleError" /\ strategy \in {"Au", "Em", "Ex", "Su"}

\* C18: the Run comes to an end, a finished Run returns a str, and a Run
\* fails without an oracle failure only when an answer to the seeder or to
\* select_top_k was not a JSON array of texts: as long as the Populations are
\* lists of texts, of any length from 0 on, expansion and selection raise
\* nothing and the Run reaches Done.
C18_UndersizedPoolsTolerated ==
    /\ [](FailedWithoutOracleFailure =>
             \/ seeded.answered /\ ~IsArrayOfTexts(seeded.response)
             \/ handed.answered /\ ~IsArrayOfTexts(handed.response))
    /\ [](pc = "Done" => IsStr(final))
    /\ <>(pc \in {"Done", "Error"})

\* a Run of two generations: the seeder returned no entry, select_top_k then
\* one entry for top_k = 2, then none, and the Run is Done
C18_Witness ==
    /\ pc = "Done" /\ iterations = 2 /\ top_k = 2
    /\ seeded.out = Returned(ListVal(<<>>))
    /\ Len(handed.base) = 1
    /\ handed.out = Returned(ListVal(<<>>))
    /\ pool = ListVal(<<>>)

\* the last seed or select_top_k call before call i
LastBarrier(i) ==
    CHOOSE j \in 0..(i - 1) :
        /\ j > 0 => calls[j].kind \in {"seed", "topk"}
        /\ \A n \in (j + 1)..(i - 1) : calls[n].kind \notin {"seed", "topk"}

\* C19: when select_top_k is called in a generation whose population has m
\* members, the calls made since the previous seed or select_top_k call are
\* exactly m mutate and m crossover calls, one pair per description, all of
\* which have returned, and the pool it is given is complete (the m members
\* and the 2m variants).
C19_SelectAfterAllVariants ==
    (calls # <<>> /\ calls[Len(calls)].kind = "topk") =>
        LET i == Len(calls)
            j == LastBarrier(i)
            m == Len(handed.base)
        IN  /\ handed.called
            /\ j > 0
            /\ i - j - 1 = 2 * m
            /\ \A n \in 1..m :
                 /\ calls[j + 2 * n - 1] = [kind |-> "mutate", ok |-> TRUE]
                 /\ calls[j + 2 * n] = [kind |-> "crossover", ok |-> TRUE]
            /\ Len(handed.pool) = 3 * m

\* the select_top_k call of the second generation, on a population of two
C19_Witness ==
    /\ calls # <<>> /\ calls[Len(calls)].kind = "topk"
    /\ CountKind("topk") = 2
    /\ Len(handed.base) = 2
    /\ CountKind("mutate") >= 3

\* C20: in the loop of a generation every crossover partner chosen so far is
\* a member of the population the generation started with, one was chosen
\* per description handled, and the next choice is among the whole
\* population whatever was chosen before.
C20_PartnerFromCurrentPopulation ==
    pc = "Evolving" =>
        /\ Len(others) = idx
        /\ \A i \in 1..Len(others) : others[i] \in Members(pool)
        /\ Partners = Members(pool)

\* the first description was crossed with itself, and the second, a
\* different one, with the same partner again
C20_Witness ==
    /\ pc = "Evolving" /\ idx = 2 /\ Len(others) = 2
    /\ Iter(pool)[1] # Iter(pool)[2]
    /\ others[1] = Iter(pool)[1]
    /\ others[2] = others[1]

\* C21: every step of the loop over the pool (a mutate or a crossover, ended
\* by an answer or by an exception) leaves the population, its members and
\* their order as they are, and the inputs of the Run too; a mutate or a
\* crossover that returns has made exactly one oracle call, of its kind.
C21_OperatorsLeavePopulation ==
    [][InLoop =>
          /\ pool' = pool
          /\ <<strategy', pool_size', iterations', top_k', gen'>>
                 = <<strategy, pool_size, iterations, top_k, gen>>
          /\ nMut' = nMut + 1
                 => calls' = Append(calls, [kind |-> "mutate", ok |-> TRUE])
          /\ nCross' = nCross + 1
                 => calls' = Append(calls, [kind |-> "crossover", ok |-> TRUE])
          /\ calls' # calls
                 => /\ Len(calls') = Len(calls) + 1
                    /\ calls'[Len(calls')].kind \in {"mutate", "crossover"}]_vars

\* the loop is at the second of two descriptions, after three operator
\* calls returned, and the population is the one the seeder gave
C21_Witness ==
    /\ InLoop /\ idx = 1 /\ step = "crossover" /\ gen = 0
    /\ Len(Iter(pool)) = 2 /\ nMut = 2 /\ nCross = 1
    /\ seeded.out = Returned(pool)

\* the tools a document has under a server
ToolsOf(doc, server) == IF Has(doc, server) THEN DOMAIN doc[server] ELSE {}

\* C22: a generator write for (server, tool) leaves a JSON document in the
\* file, in which every other server, and every other tool of the same
\* server, is as it was; it adds nothing but its own server and tool, and
\* on an absent file it writes the document that holds its own entry only.
C22_WriteKeepsOtherEntries ==
    [][WriteBack(Operator) =>
        LET server == wserver[Operator]
            tool == wtool[Operator]
            before == IF file.exists THEN file.data ELSE EmptyDict
            after == file'.data
        IN  /\ file'.exists /\ file'.valid
            /\ DOMAIN after = DOMAIN before \cup {server}
            /\ \A s \in DOMAIN before \ {server} : after[s] = before[s]
            /\ DOMAIN after[server] = ToolsOf(before, server) \cup {tool}
            /\ \A t \in ToolsOf(before, server) \ {tool} :
                   after[server][t] = before[server][t]
            /\ ~file.exists =>
                   /\ DOMAIN after = {server}
                   /\ DOMAIN after[server] = {tool}]_vars

InputsOf(r) == <<runs[r].pool_size, runs[r].iterations, runs[r].top_k>>

ArrayOf(response) ==
    LET start == Find(response, "[")
        end == RFind(response, "]")
    IN  IF start # 0 /\ end # 0 THEN Slice(response, start, end) ELSE <<>>

\* the answer is a JSON array of strings with text before and after it that
\* holds no bracket of the array's kind
IsArrayInChatter(response) ==
    LET parsed == JsonLoads(ArrayOf(response))
    IN  /\ parsed.ok /\ IsList(parsed.v)
        /\ \A i \in 1..Len(parsed.v.items) : IsStr(parsed.v.items[i])

\* C24: when the oracle's answer to the seeder is a JSON array of strings with
\* text before it that holds no "[" and text after it that holds no "]", the
\* seeder returns the first P entries of the array, the same as it returns
\* for the array alone.
C24_SeederIgnoresChatter ==
    (seeded.answered /\ IsArrayInChatter(seeded.response)) =>
        /\ seeded.out = PySlice(JsonLoads(ArrayOf(seeded.response)).v, pool_size)
        /\ seeded.out = SeederParse(ArrayOf(seeded.response), pool_size)


(***************************************************************************)
(* The size of the Population                                              *)
(***************************************************************************)
Larger(a, b) == IF a > b THEN a ELSE b

\* select_top_k was called with the extended pool and did not return: the
\* pool of the Run is still the extended one
SelectDidNotReturn ==
    pc = "Error" /\ handed.called /\ (~handed.answered \/ handed.out.err # "none")

\* C25: in every reachable state the Population is bounded: what the seeder
\* returned has at most P entries, what select_top_k returned has at most
\* top_k entries, and every extended pool has at most 3 * max(P, top_k)
\* entries, whatever the oracle answers and however many generations run.
C25_PopulationBounded ==
    /\ (seeded.answered /\ seeded.out.err = "none") =>
          /\ HasLen(seeded.out.v) /\ PyLen(seeded.out.v) <= pool_size
          /\ (gen = 0 /\ ~handed.called) => pool = seeded.out.v
    /\ (handed.answered /\ handed.out.err = "none") =>
          /\ HasLen(handed.out.v) /\ PyLen(handed.out.v) <= top_k
    /\ (gen >= 1 /\ ~SelectDidNotReturn) => PyLen(pool) <= top_k
    /\ pc = "Evolving" => Len(new_pool) <= 2 * PyLen(pool)
    /\ handed.called =>
          /\ Len(handed.pool) = 3 * Len(handed.base)
          /\ Len(handed.pool) <= 3 * Larger(pool_size, top_k)
    /\ SelectDidNotReturn => pool = ListVal(handed.pool)
    /\ PyLen(pool) <= 3 * Larger(pool_size, top_k)

\* a second generation that extends a pool of top_k = 2 > P = 1 entries to
\* six, and cuts the answer of three entries to two again
C25_Witness ==
    /\ pool_size = 1 /\ top_k = 2 /\ gen = 2
    /\ Len(handed.base) = 2 /\ Len(handed.pool) = 6
    /\ JsonLoads(handed.response).ok /\ IsList(JsonLoads(handed.response).v)
    /\ Len(JsonLoads(handed.response).v.items) = 3
    /\ PyLen(pool) = 2


(***************************************************************************)
(* The members of the Population                                           *)
(***************************************************************************)
\* a list whose every member is a str
IsListOfTexts(v) == IsList(v) /\ \A i \in 1..Len(v.items) : IsStr(v.items[i])

\* C26: in every reachable state the Population, once the seeder has set it,
\* is a list whose every member is a text string: nothing else the oracle's
\* answer parses to (a number, null, a nested array, a bare string) becomes
\* the Population or a member of it.
C26_PopulationOfTexts == pool # NoneVal => IsListOfTexts(pool)


(***************************************************************************)
(*   SpecJudge     select_top_k on its own with a judge that answers with  *)
(*                 the JSON encoding of members of the pool it was given;  *)
(*                 one of the Descriptions holds a number with a dot       *)
(***************************************************************************)
\* a Description with digits and a dot in it, as in "Rated 4.5 stars"
TxtRated == <<"A", "4", ".", "5">>

\* json.dumps of a list of str values whose characters need no escape
RECURSIVE JsonDumpsItems(_)
JsonDumpsItems(items) ==
    IF items = <<>> THEN <<>>
    ELSE IF Len(items) = 1 THEN Quoted(items[1].s)
    ELSE Quoted(items[1].s) \o <<",", " ">> \o JsonDumpsItems(Tail(items))

JsonDumps(items) == <<"[">> \o JsonDumpsItems(items) \o <<"]">>

JudgePools ==
    UNION {[1..n -> {StrVal(TxtA), StrVal(TxtB), StrVal(TxtRated)}] : n \in 0..MaxSelectPool}

\* the lists of at most k members of a pool
Picks(items, k) ==
    UNION {[1..n -> {items[i] : i \in 1..Len(items)}] : n \in 0..k}

InitJudge ==
    /\ pc = "Evolving" /\ err = "none" /\ strategy = "Au"
    /\ pool_size = 1 /\ iterations = 1
    /\ top_k \in 1..MaxTopK
    /\ \E p \in JudgePools : pool = ListVal(p) /\ idx = Len(p)
    /\ new_pool = <<>> /\ gen = 0 /\ step = "mutate"
    /\ mutated = NoneVal /\ final = NoneVal
    /\ calls = <<>> /\ nMut = 0 /\ nCross = 0
    /\ handed = NoHanded /\ seeded = NoSeeded
    /\ others = <<>> /\ picked = NoPicked
    /\ PersistInit
    /\ ParaParked
    /\ RunsParked
    /\ AgentParked

\* the judge answers with the encoding of at most top_k members of the pool
SelectFaithful ==
    SelectAnsweredWith({JsonDumps(xs) : xs \in Picks(pool.items, top_k)})

NextJudge ==
    \/ SelectOracleRaises /\ UNCHANGED <<pvars, qvars, svars, avars>>
    \/ SelectFaithful /\ UNCHANGED <<pvars, qvars, svars, avars>>

SpecJudge == InitJudge /\ [][NextJudge]_vars

\* C27: when the oracle's answer to select_top_k is exactly the JSON encoding
\* of a list of at most k members of the pool it was given, select_top_k
\* returns exactly those members, character for character: the removal of
\* numbering changes no text of a Description.
C27_FaithfulJudgeVerbatim ==
    handed.answered =>
        \A xs \in Picks(handed.pool, handed.k) :
            handed.response = JsonDumps(xs) => handed.out = Returned(ListVal(xs))


(***************************************************************************)
(* The GAPMA generator: all four Runs or nothing                           *)
(***************************************************************************)
\* the document holds the entry of the GAPMA invocation of writer w: the
\* four strategy keys, each with the final Description of its Run
HoldsGapmaEntry(doc, w) ==
    /\ doc.exists /\ doc.valid
    /\ Has(doc.data, wserver[w])
    /\ Has(doc.data[wserver[w]], wtool[w])
    /\ DOMAIN doc.data[wserver[w]][wtool[w]] = {"Au", "Em", "Ex", "Su"}
    /\ \A k \in {"Au", "Em", "Ex", "Su"} :
          doc.data[wserver[w]][wtool[w]][k] = DescriptionOf(k, wrun[w])

\* C28: an invocation of the GAPMA generator persists all or nothing: while
\* the Runs go on, and when one of them fails, the document stays exactly as
\* it was; when all four Runs returned, the invocation ends with the entry of
\* (server, tool) written with the four strategy keys, each mapped to the
\* final Description of its Run.
C28_GapmaAllOrNothing ==
    [][wkind[Operator] = "gapma" =>
          /\ wpc[Operator] = "generating" => file' = file
          /\ (wpc[Operator] \in {"generated", "loaded"} /\ wpc'[Operator] = "idle")
                => HoldsGapmaEntry(file', Operator)]_vars


(***************************************************************************)
(*   SpecOverlap   two processes, each running main() of a generator once, *)
(*                 their steps interleaved in every order                  *)
(***************************************************************************)
\* a process starts its one invocation
InvokeOnce(w) == wrun[w] = 0 /\ Invoke(w)

InitOverlap == RunParked /\ PersistInit /\ ParaParked /\ RunsParked /\ AgentParked

OverlapNext ==
    \E w \in Writers :
        \/ InvokeOnce(w) /\ UNCHANGED <<rvars, qvars, svars, avars>>
        \/ GapmaRunReturns(w) /\ UNCHANGED <<rvars, qvars, svars, avars>>
        \/ GapmaRunRaises(w) /\ UNCHANGED <<rvars, qvars, svars, avars>>
        \/ ParaphraseReturns(w) /\ UNCHANGED <<rvars, qvars, svars, avars>>
        \/ ParaphraseRaises(w) /\ UNCHANGED <<rvars, qvars, svars, avars>>
        \/ Load(w) /\ UNCHANGED <<rvars, qvars, svars, avars>>
        \/ WriteBack(w) /\ UNCHANGED <<rvars, qvars, svars, avars>>

SpecOverlap == InitOverlap /\ [][OverlapNext]_vars

\* the document holds what the invocation of writer w generated, at the
\* (server, tool) the invocation targets
HoldsEntryOf(doc, w) ==
    /\ doc.exists /\ doc.valid
    /\ Has(doc.data, wserver[w])
    /\ Has(doc.data[wserver[w]], wtool[w])
    /\ IF wkind[w] = "gapma"
       THEN HoldsGapmaEntry(doc, w)
       ELSE /\ Has(doc.data[wserver[w]][wtool[w]], COMPETITORS)
            /\ Has(wresult[w], COMPETITORS)
            /\ doc.data[wserver[w]][wtool[w]][COMPETITORS] = wresult[w][COMPETITORS]

\* C29: no update is lost when two invocations that target different
\* (server, tool) entries overlap: the write-back of one invocation leaves the
\* entry that the other invocation has written in the document, so that
\* after both have completed the document holds both entries, in whatever
\* order their load and write-back steps come.
C29_NoLostUpdate ==
    [][\A w \in Writers, q \in Writers :
          (/\ <<wserver[w], wtool[w]>> # <<wserver[q], wtool[q]>>
           /\ wpc[q] = "idle" /\ HoldsEntryOf(file, q)
           /\ WriteBack(w))
            => HoldsEntryOf(file', q) /\ HoldsEntryOf(file', w)]_vars


(***************************************************************************)
(*   SpecCsv       run_agent_over_csv on every input file of at most       *)
(*                 MaxRows rows, the agent answering or raising on each    *)
(*                                                                         *)
(* A row of the input is what csv.DictReader makes of a line: question is  *)
(* row.get("question") ("" stands for an empty or a missing cell), surplus *)
(* tells that the line has more cells than the header, which DictReader    *)
(* stores under the key None.  csv_run holds the locals of the call: the   *)
(* rows, the number i of rows read, the rows written to out_file, and the  *)
(* two counters.                                                           *)
(***************************************************************************)
\* largest number of rows of the input file
MaxRows == 3

RowsOfCsv == [question : {"", "q"}, surplus : BOOLEAN]

CsvFiles == UNION {[1..n -> RowsOfCsv] : n \in 0..MaxRows}

CsvInit ==
    \E rows \in CsvFiles :
        csv_run = [pc |-> "rows", rows |-> rows, i |-> 0, out |-> <<>>,
                   processed |-> 0, failures |-> 0]

\* the row the for loop is at
CurrentRow == csv_run.rows[csv_run.i + 1]

AtRow == csv_run.pc = "rows" /\ csv_run.i < Len(csv_run.rows)

\* "csv_writer.writerow(row)": DictWriter raises ValueError for a dict with a
\* key that is no fieldname, which the key None of a surplus cell is
WriteRow(n, result) ==
    IF csv_run.rows[n].surplus THEN Raised("ValueError")
    ELSE Returned([row |-> n, result |-> result])

\* "if not question: failures += 1; continue"
RowSkipped ==
    /\ AtRow /\ CurrentRow.question = ""
    /\ csv_run' = [csv_run EXCEPT !.failures = @ + 1, !.i = @ + 1]

\* the except clause: "failures += 1; row["result"] = f"ERROR: {e}";
\* csv_writer.writerow(row)"; an exception of this writerow leaves the
\* function
RowFailed ==
    LET written == WriteRow(csv_run.i + 1, "ERROR")
    IN  IF written.err # "none"
        THEN csv_run' = [csv_run EXCEPT !.failures = @ + 1, !.pc = "aborted"]
        ELSE csv_run' = [csv_run EXCEPT !.failures = @ + 1, !.i = @ + 1,
                                        !.out = Append(@, written.v)]

\* "result = await agent.send(question)" returns; "row["result"] = result;
\* csv_writer.writerow(row); processed += 1" inside the try
RowAnswered ==
    /\ AtRow /\ CurrentRow.question # ""
    /\ LET written == WriteRow(csv_run.i + 1, "result")
       IN  IF written.err # "none" THEN RowFailed
           ELSE csv_run' = [csv_run EXCEPT !.processed = @ + 1, !.i = @ + 1,
                                           !.out = Append(@, written.v)]

\* agent.send raises an Exception
RowAgentRaises ==
    /\ AtRow /\ CurrentRow.question # ""
    /\ RowFailed

\* the loop is over: "Run complete | processed=%d | failures=%d"
RunComplete ==
    /\ csv_run.pc = "rows" /\ csv_run.i = Len(csv_run.rows)
    /\ csv_run' = [csv_run EXCEPT !.pc = "done"]

InitCsv == RunParked /\ PersistInit /\ ParaParked /\ RunsParked /\ CsvInit

NextCsv ==
    \/ RowSkipped /\ UNCHANGED <<rvars, pvars, qvars, svars>>
    \/ RowAnswered /\ UNCHANGED <<rvars, pvars, qvars, svars>>
    \/ RowAgentRaises /\ UNCHANGED <<rvars, pvars, qvars, svars>>
    \/ RunComplete /\ UNCHANGED <<rvars, pvars, qvars, svars>>

SpecCsv == InitCsv /\ [][NextCsv]_vars

\* the numbers of the rows with a question among the first n rows, in order
RECURSIVE Asked(_)
Asked(n) ==
    IF n = 0 THEN <<>>
    ELSE IF csv_run.rows[n].question # "" THEN Append(Asked(n - 1), n)
    ELSE Asked(n - 1)

\* C30: a failure of the agent on a row never aborts run_agent_over_csv:
\* the rows read so far that have a question have each given exactly one
\* output row, in input order, with the agent's result or an ERROR result;
\* rows without a question have given none; and at the end every row has
\* been read and processed + failures is the number of input rows.
C30_AgentFailureNeverAborts ==
    /\ csv_run.pc # "aborted"
    /\ [n \in 1..Len(csv_run.out) |-> csv_run.out[n].row] = Asked(csv_run.i)
    /\ \A n \in 1..Len(csv_run.out) : csv_run.out[n].result \in {"result", "ERROR"}
    /\ csv_run.processed + csv_run.failures = csv_run.i
    /\ csv_run.pc = "done" => csv_run.i = Len(csv_run.rows)

====
